---- MODULE Spec2Model ----
(***************************************************************************)
(* Verification model of the rustracer intersection-and-shading engine.   *)
(*                                                                         *)
(* The module holds several state machines over disjoint variables, one    *)
(* specification each:                                                     *)
(*   SpecGroup  scene construction: shapes, groups, transform composition  *)
(*   SpecShade  the shading recursion of World::color_at as a call stack   *)
(*   SpecPrep   Intersection::prepare_computations on a list of crossings  *)
(*   SpecHit    Intersection::hit on a list of intersections               *)
(*   SpecScene  World::intersect, World::is_shadowed, Group::intersect and *)
(*              Group::bounds on an assembled scene                        *)
(*   SpecRender Camera::render: per-pixel tasks, collect, canvas writes    *)
(*   SpecIds    next_shape_id called from concurrent constructors          *)
(*   SpecOwn    scene construction with cloned and dropped Arc handles     *)
(*   SpecBounds Bounds::transform on one box and one matrix                *)
(*   SpecSphere a sphere given a transform with fractional entries and     *)
(*              intersected with a ray                                     *)
(*   SpecDegenerate Plane, Triangle and SmoothTriangle::local_intersect on *)
(*              rays parallel to the surface                               *)
(*   SpecCube   Cube::local_intersect with f64 infinities                  *)
(*   SpecComps  Computations::new: inside, normalv, over_point, under_point*)
(*   SpecChecker Checker::color_at on points across the cell borders       *)
(*   SpecSamples Camera::rays_for_pixels, the sample rays of one pixel     *)
(*   SpecColorAtList World::color_at from the list to the Computations     *)
(*   SpecMaterial Group::material and Group::set_material on built scenes  *)
(* A specification leaves the variables of the others at their idle value. *)
(*                                                                         *)
(* Transforms are square matrices with exact arithmetic.  The model keeps  *)
(* the algebra of src/matrix.rs (row-by-column product, determinant,       *)
(* inverse as transposed cofactors divided by the determinant) on 2x2      *)
(* integer matrices in row-major order, the homogeneous form of the affine *)
(* maps x -> a*x + b of a line.  The matrices handed to the program are a  *)
(* translation, a mirroring (scaling by -1) and the singular scaling by 0; *)
(* every product of the invertible ones has determinant 1 or -1, so the    *)
(* division in the inverse is exact.  SpecSphere alone uses matrices of   *)
(* fractions, to reach determinants between 0 and EPSILON.                 *)
(***************************************************************************)
EXTENDS Integers, Sequences, FiniteSets, TLC

VARIABLES
    shapes,     \* heap of constructed shapes: id -> [kind, transform, inverse,
                \* children, strong (Arc strong count), material]
    own,        \* history: the transform the program itself last gave to each shape
    aborted,    \* TRUE once a panic has ended the program
    ops,        \* number of calls so far that gave a shape a transform
    lastOp,     \* history: the last operation performed (or call completed)
    stack,      \* call stack of the shading recursion, innermost call last
    ret,        \* colour returned by the call that completed last
    shadeCount, \* history: number of shade_hit evaluations so far
    entry,      \* history: the outermost call of the shading recursion
    int_list,   \* the intersection list handed to prepare_computations / hit
    self,       \* position in int_list of the intersection prepared (0: not in it)
    result,     \* outcome of the call that completed last, once computed
    world,      \* World.shapes: the top-level shapes of the scene
    tasks,      \* render: state of the per-pixel task, by position in the pixel list
    collected,  \* render: TRUE once collect() has returned the results
    image,      \* render: the canvas being assembled
    writes,     \* history: canvas indices written so far, in order
    shape_id,   \* the process-wide counter SHAPE_ID
    threads,    \* constructor calls in progress, one per thread
    issued      \* history: the values next_shape_id has returned, in order

groupVars == <<shapes, own, aborted, ops>>

shadeVars == <<stack, ret, shadeCount, entry>>

listVars == <<int_list, self, result>>

sceneVars == <<world>>

renderVars == <<tasks, collected, image, writes>>

idVars == <<shape_id, threads, issued>>

vars == <<shapes, own, aborted, ops, lastOp, stack, ret, shadeCount, entry,
          int_list, self, result, world, tasks, collected, image, writes,
          shape_id, threads, issued>>

-----------------------------------------------------------------------------
(* Bounds of the model *)

MaxShapes == 3

MaxOps == 2

-----------------------------------------------------------------------------
(* src/matrix.rs, src/transform.rs *)

Eye == <<1, 0, 0, 1>>

Translation(x) == <<1, x, 0, 1>>

Scaling(x) == <<x, 0, 0, 1>>

Mul(l, r) ==
    << l[1] * r[1] + l[2] * r[3], l[1] * r[2] + l[2] * r[4],
       l[3] * r[1] + l[4] * r[3], l[3] * r[2] + l[4] * r[4] >>

Det(m) == m[1] * m[4] - m[2] * m[3]

\* entry (row, col) of a row-major matrix, rows and columns counted from 0
At(m, row, col) == m[row * 2 + col + 1]

Cofactor(m, row, col) ==
    LET minor == At(m, 1 - row, 1 - col)
    IN  IF (row + col) % 2 = 0 THEN minor ELSE -minor

Quot(c, det) == IF det < 0 THEN (-c) \div (-det) ELSE c \div det

\* EPSILON = 0.0001, as the fraction 1 / EpsilonInverse
EpsilonInverse == 10000

\* det.approx_eq(&0.0): |det - 0| < EPSILON
IsSingular(m) ==
    LET det == Det(m)
    IN  (IF det < 0 THEN -det ELSE det) * EpsilonInverse < 1

\* inverse[(col, row)] = cofactor(row, col) / det; panics when IsSingular(m)
Inverse(m) ==
    LET det == Det(m)
    IN  << Quot(Cofactor(m, 0, 0), det), Quot(Cofactor(m, 1, 0), det),
           Quot(Cofactor(m, 0, 1), det), Quot(Cofactor(m, 1, 1), det) >>

\* the matrices the program passes to constructors and set_transformation
Mats == {Translation(1), Scaling(-1), Scaling(0)}

-----------------------------------------------------------------------------
(* src/shapes/sphere.rs, src/shapes/group.rs *)

Ids == DOMAIN shapes

\* A shape on the heap also carries strong, the number of live Arc handles to
\* it (1 for a shape held by value or by a single Arc), and a leaf carries
\* its material (0 is Material::default()).

NewSphere(mat) ==
    [kind |-> "sphere", transform |-> mat, inverse |-> Inverse(mat), children |-> <<>>,
     strong |-> 1, material |-> 0]

\* Plane::with_transformation
NewPlane(mat) ==
    [kind |-> "plane", transform |-> mat, inverse |-> Inverse(mat), children |-> <<>>,
     strong |-> 1, material |-> 0]

NewGroup ==
    [kind |-> "group", transform |-> Eye, inverse |-> Eye, children |-> <<>>,
     strong |-> 1]

\* A call in progress works on st = [sh |-> heap, ok |-> no panic so far].

\* a set_transformation that stores the transform and keeps the old inverse
SphereSetTransformationStale(st, id, mat) ==
    IF ~st.ok THEN st
    ELSE [sh |-> [st.sh EXCEPT ![id].transform = mat], ok |-> ~IsSingular(mat)]

\* a set_transformation that stores a singular transform and carries on
SphereSetTransformationLenient(st, id, mat) ==
    IF ~st.ok THEN st
    ELSE IF IsSingular(mat)
         THEN [sh |-> [st.sh EXCEPT ![id].transform = mat], ok |-> TRUE]
         ELSE [sh |-> [st.sh EXCEPT ![id].transform = mat,
                                    ![id].inverse = Inverse(mat)],
               ok |-> TRUE]

\* Sphere::set_transformation (likewise Plane, Cube, Triangle, SmoothTriangle)
SphereSetTransformation(st, id, mat) ==
    IF ~st.ok THEN st
    ELSE IF IsSingular(mat)
         THEN [sh |-> [st.sh EXCEPT ![id].transform = mat], ok |-> FALSE]
         ELSE [sh |-> [st.sh EXCEPT ![id].transform = mat,
                                    ![id].inverse = Inverse(mat)],
               ok |-> TRUE]

\* Arc::get_mut(..) is Some: no other handle to the shape is alive
Unique(sh, id) == sh[id].strong = 1

RECURSIVE SetTransformation(_, _, _)
RECURSIVE SetTransformationChildren(_, _, _, _)

\* the loop "for child in &mut self.children" of Group::set_transformation,
\* from position k on
SetTransformationChildren(st, children, k, delta) ==
    IF k > Len(children) \/ ~st.ok THEN st
    ELSE LET child == children[k]
             st1 == IF ~Unique(st.sh, child) THEN [st EXCEPT !.ok = FALSE]
                    ELSE IF st.sh[child].kind = "group"
                    THEN SetTransformation(st, child, delta)
                    ELSE SetTransformation(st, child, Mul(delta, st.sh[child].transform))
         IN  SetTransformationChildren(st1, children, k + 1, delta)

\* Shape::set_transformation, dispatched on the variant
SetTransformation(st, id, mat) ==
    IF ~st.ok THEN st
    ELSE IF st.sh[id].kind = "group"
    THEN LET old_group == st.sh[id].transform
         IN  IF IsSingular(old_group) THEN [st EXCEPT !.ok = FALSE]
             ELSE LET delta == Mul(mat, Inverse(old_group))
                      st1 == SetTransformationChildren(st, st.sh[id].children, 1, delta)
                  IN  IF ~st1.ok THEN st1
                      ELSE IF IsSingular(mat)
                      THEN [sh |-> [st1.sh EXCEPT ![id].transform = mat], ok |-> FALSE]
                      ELSE [sh |-> [st1.sh EXCEPT ![id].transform = mat,
                                                  ![id].inverse = Inverse(mat)],
                            ok |-> TRUE]
    ELSE SphereSetTransformation(st, id, mat)

\* an add_child that pushes the shape without composing the group's transform
AddChildNoCompose(st, g, shape) ==
    [st EXCEPT !.sh[g].children = Append(@, shape)]

\* an add_child that takes the handle whoever else holds it
AddChildShared(st, g, shape) ==
    LET combined == Mul(st.sh[g].transform, st.sh[shape].transform)
        st1 == SetTransformation(st, shape, combined)
    IN  IF ~st1.ok THEN st1
        ELSE [st1 EXCEPT !.sh[g].children = Append(@, shape)]

\* Group::add_child
AddChild(st, g, shape) ==
    LET combined == Mul(st.sh[g].transform, st.sh[shape].transform)
    IN  IF ~Unique(st.sh, shape) THEN [st EXCEPT !.ok = FALSE]
        ELSE LET st1 == SetTransformation(st, shape, combined)
             IN  IF ~st1.ok THEN st1
                 ELSE [st1 EXCEPT !.sh[g].children = Append(@, shape)]

\* shapes the program still owns: not moved into any group
IsChild(i) == \E g \in Ids : \E k \in 1..Len(shapes[g].children) : shapes[g].children[k] = i

Roots == {i \in Ids : ~IsChild(i)}

NextId == Cardinality(Ids) + 1

ChildSet(sh, id) == {sh[id].children[k] : k \in 1..Len(sh[id].children)}

RECURSIVE Descendants(_, _)

Descendants(sh, id) ==
    ChildSet(sh, id) \cup UNION {Descendants(sh, c) : c \in ChildSet(sh, id)}

-----------------------------------------------------------------------------
(* src/bounds.rs, Group::bounds: boxes are intervals [min, max] of the line; *)
(* finite = FALSE stands for a box with an infinite component              *)

Min(a, b) == IF a < b THEN a ELSE b

Max(a, b) == IF a > b THEN a ELSE b

\* Sphere::get_bounds
SphereBounds == [min |-> -1, max |-> 1, finite |-> TRUE]

\* the bounds of a plane: infinite along the plane, 0 along its normal
PlaneBounds == [min |-> 0, max |-> 0, finite |-> FALSE]

\* an is_finite that lets every box through
IsFiniteAlways(b) == TRUE

\* Bounds::is_finite
IsFinite(b) == b.finite

\* the box (INFINITY, NEG_INFINITY) a group's loop starts from
EmptyBounds == [min |-> 0, max |-> 0, finite |-> FALSE]

\* Bounds::transform: the two corner points (x, 1) multiplied by the matrix
BoundsTransform(b, m) ==
    [min |-> m[1] * b.min + m[2], max |-> m[1] * b.max + m[2], finite |-> b.finite]

RECURSIVE Bounds(_, _)
RECURSIVE BoundsLoop(_, _, _, _)

\* the loop "for child in &self.children" of Group::bounds, from position k on
BoundsLoop(sh, children, k, acc) ==
    IF k > Len(children) THEN acc
    ELSE LET child == children[k]
             b == IF sh[child].kind = "group"
                  THEN Bounds(sh, child)
                  ELSE BoundsTransform(Bounds(sh, child), sh[child].transform)
             acc1 == IF ~IsFinite(b) THEN acc
                     ELSE IF ~acc.finite THEN b
                     ELSE [min |-> Min(acc.min, b.min), max |-> Max(acc.max, b.max),
                           finite |-> TRUE]
         IN  BoundsLoop(sh, children, k + 1, acc1)

\* Shape::bounds
Bounds(sh, id) ==
    IF sh[id].kind = "group"
    THEN BoundsLoop(sh, sh[id].children, 1, EmptyBounds)
    ELSE IF sh[id].kind = "plane" THEN PlaneBounds
    ELSE SphereBounds

NoOp == [op |-> "none", target |-> 0, arg |-> 0, mat |-> Eye]

-----------------------------------------------------------------------------
(* Scene construction: the operations a program performs on shapes *)

IdleGroup ==
    /\ shapes = <<>>
    /\ own = <<>>
    /\ aborted = FALSE
    /\ ops = 0

IdleShade ==
    /\ stack = <<>>
    /\ ret = 0
    /\ shadeCount = 0
    /\ entry = [fn |-> "none"]

IdleList ==
    /\ int_list = <<>>
    /\ self = 0
    /\ result = [done |-> FALSE]

IdleScene == world = <<>>

IdleRender ==
    /\ tasks = <<>>
    /\ collected = FALSE
    /\ image = <<>>
    /\ writes = <<>>

IdleIds ==
    /\ shape_id = 1
    /\ threads = <<>>
    /\ issued = <<>>

InitGroup ==
    /\ IdleGroup
    /\ IdleShade
    /\ IdleList
    /\ IdleScene
    /\ IdleRender
    /\ IdleIds
    /\ lastOp = NoOp

\* Sphere::new()
SphereNew ==
    /\ ~aborted
    /\ NextId <= MaxShapes
    /\ shapes' = Append(shapes, NewSphere(Eye))
    /\ own' = Append(own, Eye)
    /\ lastOp' = [op |-> "new", target |-> NextId, arg |-> 0, mat |-> Eye]
    /\ UNCHANGED <<aborted, ops, shadeVars, listVars, sceneVars, renderVars, idVars>>

\* Sphere::with_transformation(mat)
SphereWithTransformation ==
    /\ ~aborted
    /\ NextId <= MaxShapes
    /\ \E mat \in Mats :
          /\ lastOp' = [op |-> "with_transformation", target |-> NextId, arg |-> 0, mat |-> mat]
          /\ IF IsSingular(mat)
             THEN /\ aborted' = TRUE
                  /\ UNCHANGED <<shapes, own>>
             ELSE /\ shapes' = Append(shapes, NewSphere(mat))
                  /\ own' = Append(own, mat)
                  /\ UNCHANGED aborted
    /\ ops < MaxOps
    /\ ops' = ops + 1
    /\ UNCHANGED <<shadeVars, listVars, sceneVars, renderVars, idVars>>

\* Group::new()
GroupNew ==
    /\ ~aborted
    /\ NextId <= MaxShapes
    /\ shapes' = Append(shapes, NewGroup)
    /\ own' = Append(own, Eye)
    /\ lastOp' = [op |-> "group_new", target |-> NextId, arg |-> 0, mat |-> Eye]
    /\ UNCHANGED <<aborted, ops, shadeVars, listVars, sceneVars, renderVars, idVars>>

\* shape.set_transformation(mat) on a shape the program owns
ShapeSetTransformation ==
    /\ ~aborted
    /\ ops < MaxOps
    /\ \E id \in Roots : \E mat \in Mats :
          LET st1 == SetTransformation([sh |-> shapes, ok |-> TRUE], id, mat)
          IN  /\ shapes' = st1.sh
              /\ aborted' = ~st1.ok
              /\ own' = [own EXCEPT ![id] = mat]
              /\ lastOp' = [op |-> "set_transformation", target |-> id, arg |-> 0, mat |-> mat]
    /\ ops' = ops + 1
    /\ UNCHANGED <<shadeVars, listVars, sceneVars, renderVars, idVars>>

\* the program holds a handle to the shape: it was not moved into a group, or
\* a clone of the handle in the group is alive
Held(i) == IsChild(i) => shapes[i].strong > 1

\* g.add_child(handle) for a group the program owns and a handle it holds
GroupAddChild ==
    /\ ~aborted
    /\ \E g \in Roots : \E shape \in Ids :
          /\ shapes[g].kind = "group"
          /\ Unique(shapes, g)
          /\ shape # g
          /\ Held(shape)
          /\ LET st1 == AddChild([sh |-> shapes, ok |-> TRUE], g, shape)
             IN  /\ shapes' = st1.sh
                 /\ aborted' = ~st1.ok
          /\ lastOp' = [op |-> "add_child", target |-> g, arg |-> shape,
                        mat |-> shapes[g].transform]
    /\ UNCHANGED <<own, ops, shadeVars, listVars, sceneVars, renderVars, idVars>>

NextGroup ==
    \/ SphereNew
    \/ SphereWithTransformation
    \/ GroupNew
    \/ ShapeSetTransformation
    \/ GroupAddChild

SpecGroup == InitGroup /\ [][NextGroup]_vars

-----------------------------------------------------------------------------
(* Properties of the scene graph *)

\* the step just taken is a completed set_transformation call by the program
SetTransformationStep ==
    /\ lastOp'.op = "set_transformation"
    /\ ops' = ops + 1
    /\ ~aborted'

\* the step just taken is a completed add_child call
AddChildStep ==
    /\ lastOp'.op = "add_child"
    /\ lastOp'.target \in DOMAIN shapes
    /\ Len(shapes'[lastOp'.target].children) = Len(shapes[lastOp'.target].children) + 1
    /\ ~aborted'

\* C1: after P.set_transformation(M) on a group P, every nested group N that
\* is a child of P stores M * C (C the transform N had of its own) and every
\* leaf held by N stores M * C * L (L the transform the leaf had of its own).
C1_NestedPropagation ==
    (~aborted /\ lastOp.op = "set_transformation" /\ shapes[lastOp.target].kind = "group") =>
        \A n \in ChildSet(shapes, lastOp.target) :
            shapes[n].kind = "group" =>
                /\ shapes[n].transform = Mul(lastOp.mat, own[n])
                /\ \A l \in ChildSet(shapes, n) :
                       shapes[l].kind # "group" =>
                           shapes[l].transform = Mul(Mul(lastOp.mat, own[n]), own[l])

\* C2: whatever the order of set_transformation calls on a group and the
\* add_child of a leaf, the leaf stores (group's transform) * L, with L the
\* transform the leaf had of its own.
C2_LeafOrderIndependence ==
    ~aborted =>
        \A g \in Ids :
            shapes[g].kind = "group" =>
                \A c \in ChildSet(shapes, g) :
                    shapes[c].kind # "group" =>
                        shapes[c].transform = Mul(shapes[g].transform, own[c])

\* a group was re-transformed after a leaf was added to it, with a transform
\* that does not commute with the leaf's own
C2_Witness ==
    /\ ~aborted
    /\ lastOp.op = "set_transformation"
    /\ shapes[lastOp.target].kind = "group"
    /\ \E c \in ChildSet(shapes, lastOp.target) :
          /\ shapes[c].kind # "group"
          /\ Mul(lastOp.mat, own[c]) # Mul(own[c], lastOp.mat)
          /\ shapes[c].transform = Mul(lastOp.mat, own[c])

\* C3: set_transformation on a group with a matrix equal to its current
\* transform leaves the stored transform of every descendant unchanged, and
\* so leaves the group's bounds unchanged.
C3_NoOpRetransform ==
    [][(/\ SetTransformationStep
        /\ shapes[lastOp'.target].kind = "group"
        /\ lastOp'.mat = shapes[lastOp'.target].transform)
       => /\ \A d \in Descendants(shapes, lastOp'.target) :
                shapes'[d].transform = shapes[d].transform
          /\ Bounds(shapes', lastOp'.target) = Bounds(shapes, lastOp'.target)]_vars

\* C4: add_child on a group with transform T stores T * S in the added shape,
\* appends it as the last child, leaves the earlier children untouched, and
\* pre-multiplies every descendant of an added group by T.
C4_AddChildComposes ==
    [][AddChildStep =>
        LET g == lastOp'.target
            s == lastOp'.arg
            T == shapes[g].transform
        IN  /\ shapes'[s].transform = Mul(T, shapes[s].transform)
            /\ shapes'[g].children = Append(shapes[g].children, s)
            /\ \A e \in Descendants(shapes, g) : shapes'[e] = shapes[e]
            /\ \A d \in Descendants(shapes, s) :
                   shapes'[d].transform = Mul(T, shapes[d].transform)]_vars

\* C5: every shape, at any depth, holds the inverse of its current transform.
C5_CachedInverse ==
    ~aborted =>
        \A i \in Ids : shapes[i].inverse = Inverse(shapes[i].transform)

\* a group was re-transformed and a descendant now stores a transform that is
\* neither the identity nor its own inverse
C5_Witness ==
    /\ ~aborted
    /\ lastOp.op = "set_transformation"
    /\ shapes[lastOp.target].kind = "group"
    /\ \E d \in Descendants(shapes, lastOp.target) :
          /\ shapes[d].transform # Eye
          /\ Inverse(shapes[d].transform) # shapes[d].transform
          /\ shapes[d].inverse = Inverse(shapes[d].transform)

\* C21: with_transformation and set_transformation on a leaf or a group
\* abort when given a matrix with determinant zero, and while the program
\* runs every shape has an invertible transform with its inverse cached.
C21_SingularAborts ==
    /\ [][(ops' = ops + 1 /\ Det(lastOp'.mat) = 0) => aborted']_vars
    /\ [](~aborted =>
            \A i \in Ids : /\ Det(shapes[i].transform) # 0
                           /\ Mul(shapes[i].transform, shapes[i].inverse) = Eye)

\* a group with a child was given a singular matrix and the program aborted
C21_Witness ==
    /\ aborted
    /\ lastOp.op = "set_transformation"
    /\ Det(lastOp.mat) = 0
    /\ shapes[lastOp.target].kind = "group"
    /\ shapes[lastOp.target].children # <<>>

-----------------------------------------------------------------------------
(* src/world.rs: the shading recursion.  The scene is abstracted to what  *)
(* the recursion depends on: whether a ray hits something and, if so, the  *)
(* hit's Computations: the material's reflective and transparency factors, *)
(* whether Snell's law gives total internal reflection (tir) and the       *)
(* Schlick reflectance.  Colours are single integers, Black is 0; factors  *)
(* are 0 or 1.                                                             *)

MaxBounces == 1

\* pushes are capped beyond the deepest stack the budget allows
MaxStack == 3 * (MaxBounces + 2)

\* usize arithmetic wraps at the modulus (width reduced to 16 bits)
UsizeModulus == 65536

Black == 0

\* the Computations a hit can have; total internal reflection makes schlick()
\* return 1, and tir / schlick are only read for transparent / both materials
CompsSet ==
    {c \in [reflective : {0, 1}, transparency : {0, 1}, tir : BOOLEAN, schlick : {0, 1}] :
        /\ c.tir => c.transparency > 0
        /\ (c.tir /\ c.reflective > 0) => c.schlick = 1
        /\ c.schlick = 1 => (c.reflective > 0 /\ c.transparency > 0)}

NoComps == [reflective |-> 0, transparency |-> 0, tir |-> FALSE, schlick |-> 0]

\* a budget passed on without the decrement
KeepBudget(remaining) == remaining

\* "remaining - 1" on usize
DecrementBudget(remaining) == (remaining - 1) % UsizeModulus

\* a reflected_color that does not look at the budget
ReflectedColorStopsIgnoringBudget(comps, remaining) == comps.reflective = 0

\* reflected_color: the condition under which it returns black without recursing
ReflectedColorStops(comps, remaining) ==
    comps.reflective = 0 \/ remaining <= 0

\* a refracted_color that does not look at the budget
RefractedColorStopsIgnoringBudget(comps, remaining) ==
    \/ comps.transparency = 0
    \/ comps.tir

\* refracted_color: the three early returns of black
RefractedColorStops(comps, remaining) ==
    \/ remaining = 0
    \/ comps.transparency = 0
    \/ comps.tir

\* a shade_hit that blends as soon as the material is reflective or transparent
ShadeHitCombineEither(comps, surface, reflected, refracted) ==
    IF comps.reflective > 0 \/ comps.transparency > 0
    THEN surface + reflected * comps.schlick + refracted * (1 - comps.schlick)
    ELSE surface + reflected + refracted

\* shade_hit: the combination of the three contributions
ShadeHitCombine(comps, surface, reflected, refracted) ==
    IF comps.reflective > 0 /\ comps.transparency > 0
    THEN surface + reflected * comps.schlick + refracted * (1 - comps.schlick)
    ELSE surface + reflected + refracted

Frame(fn, remaining, comps) ==
    [fn |-> fn, remaining |-> remaining, comps |-> comps, pc |-> "start",
     surface |-> 0, reflected |-> 0]

Top == stack[Len(stack)]

Pop == SubSeq(stack, 1, Len(stack) - 1)

\* the top frame becomes caller and calls callee
Call(caller, callee) == Append([stack EXCEPT ![Len(stack)] = caller], callee)

Returned(fn, frame) ==
    [op |-> fn, remaining |-> frame.remaining, comps |-> frame.comps,
     pc |-> frame.pc]

\* the outermost call: any of the four public functions of World
InitShade ==
    /\ IdleGroup
    /\ IdleList
    /\ IdleScene
    /\ IdleRender
    /\ IdleIds
    /\ lastOp = NoOp
    /\ ret = Black
    /\ shadeCount = 0
    /\ \E fn \in {"color_at", "shade_hit", "reflected_color", "refracted_color"} :
       \E remaining \in 0..MaxBounces :
       \E comps \in CompsSet :
          /\ fn = "color_at" => comps = NoComps
          /\ entry = [fn |-> fn, remaining |-> remaining, comps |-> comps]
          /\ stack = <<Frame(fn, remaining, comps)>>

\* color_at: no intersection with t >= 0, returns black
ColorAtMiss ==
    /\ stack # <<>>
    /\ Top.fn = "color_at" /\ Top.pc = "start"
    /\ stack' = Pop
    /\ ret' = Black
    /\ lastOp' = Returned("color_at", Top)
    /\ UNCHANGED <<shadeCount, entry, groupVars, listVars, sceneVars, renderVars, idVars>>

\* color_at: a hit; prepare_computations, then shade_hit(comps, remaining)
ColorAtHit ==
    /\ stack # <<>>
    /\ Top.fn = "color_at" /\ Top.pc = "start"
    /\ Len(stack) < MaxStack
    /\ \E comps \in CompsSet :
          stack' = Call([Top EXCEPT !.pc = "shade_hit"],
                        Frame("shade_hit", Top.remaining, comps))
    /\ UNCHANGED <<ret, lastOp, shadeCount, entry, groupVars, listVars, sceneVars, renderVars, idVars>>

\* color_at returns what shade_hit returned
ColorAtReturn ==
    /\ stack # <<>>
    /\ Top.fn = "color_at" /\ Top.pc = "shade_hit"
    /\ stack' = Pop
    /\ lastOp' = Returned("color_at", Top)
    /\ UNCHANGED <<ret, shadeCount, entry, groupVars, listVars, sceneVars, renderVars, idVars>>

\* shade_hit: is_shadowed and Material::lighting give the surface colour,
\* then reflected_color(&comps, remaining) is called
ShadeHitLighting ==
    /\ stack # <<>>
    /\ Top.fn = "shade_hit" /\ Top.pc = "start"
    /\ Len(stack) < MaxStack
    /\ \E surface \in {0, 1} :
          stack' = Call([Top EXCEPT !.pc = "reflected_color", !.surface = surface],
                        Frame("reflected_color", Top.remaining, Top.comps))
    /\ shadeCount' = shadeCount + 1
    /\ UNCHANGED <<ret, lastOp, entry, groupVars, listVars, sceneVars, renderVars, idVars>>

\* shade_hit: reflected_color has returned, refracted_color(&comps, remaining)
\* is called
ShadeHitRefracted ==
    /\ stack # <<>>
    /\ Top.fn = "shade_hit" /\ Top.pc = "reflected_color"
    /\ Len(stack) < MaxStack
    /\ stack' = Call([Top EXCEPT !.pc = "refracted_color", !.reflected = ret],
                     Frame("refracted_color", Top.remaining, Top.comps))
    /\ UNCHANGED <<ret, lastOp, shadeCount, entry, groupVars, listVars, sceneVars, renderVars, idVars>>

\* shade_hit: refracted_color has returned, the contributions are combined
ShadeHitReturn ==
    /\ stack # <<>>
    /\ Top.fn = "shade_hit" /\ Top.pc = "refracted_color"
    /\ stack' = Pop
    /\ ret' = ShadeHitCombine(Top.comps, Top.surface, Top.reflected, ret)
    /\ lastOp' = Returned("shade_hit", Top) @@
                  [surface |-> Top.surface, reflected |-> Top.reflected, refracted |-> ret]
    /\ UNCHANGED <<shadeCount, entry, groupVars, listVars, sceneVars, renderVars, idVars>>

\* reflected_color: black (times reflective) without recursion
ReflectedColorBlack ==
    /\ stack # <<>>
    /\ Top.fn = "reflected_color" /\ Top.pc = "start"
    /\ ReflectedColorStops(Top.comps, Top.remaining)
    /\ stack' = Pop
    /\ ret' = Black * Top.comps.reflective
    /\ lastOp' = Returned("reflected_color", Top)
    /\ UNCHANGED <<shadeCount, entry, groupVars, listVars, sceneVars, renderVars, idVars>>

\* reflected_color: color_at(&reflect_ray, remaining - 1)
ReflectedColorCall ==
    /\ stack # <<>>
    /\ Top.fn = "reflected_color" /\ Top.pc = "start"
    /\ ~ReflectedColorStops(Top.comps, Top.remaining)
    /\ Len(stack) < MaxStack
    /\ stack' = Call([Top EXCEPT !.pc = "color_at"],
                     Frame("color_at", DecrementBudget(Top.remaining), NoComps))
    /\ UNCHANGED <<ret, lastOp, shadeCount, entry, groupVars, listVars, sceneVars, renderVars, idVars>>

\* reflected_color: the recursive colour times reflective
ReflectedColorReturn ==
    /\ stack # <<>>
    /\ Top.fn = "reflected_color" /\ Top.pc = "color_at"
    /\ stack' = Pop
    /\ ret' = ret * Top.comps.reflective
    /\ lastOp' = Returned("reflected_color", Top)
    /\ UNCHANGED <<shadeCount, entry, groupVars, listVars, sceneVars, renderVars, idVars>>

\* refracted_color: one of the early returns of black
RefractedColorBlack ==
    /\ stack # <<>>
    /\ Top.fn = "refracted_color" /\ Top.pc = "start"
    /\ RefractedColorStops(Top.comps, Top.remaining)
    /\ stack' = Pop
    /\ ret' = Black
    /\ lastOp' = Returned("refracted_color", Top)
    /\ UNCHANGED <<shadeCount, entry, groupVars, listVars, sceneVars, renderVars, idVars>>

\* refracted_color: color_at(&refract_ray, remaining - 1)
RefractedColorCall ==
    /\ stack # <<>>
    /\ Top.fn = "refracted_color" /\ Top.pc = "start"
    /\ ~RefractedColorStops(Top.comps, Top.remaining)
    /\ Len(stack) < MaxStack
    /\ stack' = Call([Top EXCEPT !.pc = "color_at"],
                     Frame("color_at", DecrementBudget(Top.remaining), NoComps))
    /\ UNCHANGED <<ret, lastOp, shadeCount, entry, groupVars, listVars, sceneVars, renderVars, idVars>>

\* refracted_color: the recursive colour times transparency
RefractedColorReturn ==
    /\ stack # <<>>
    /\ Top.fn = "refracted_color" /\ Top.pc = "color_at"
    /\ stack' = Pop
    /\ ret' = ret * Top.comps.transparency
    /\ lastOp' = Returned("refracted_color", Top)
    /\ UNCHANGED <<shadeCount, entry, groupVars, listVars, sceneVars, renderVars, idVars>>

NextShade ==
    \/ ColorAtMiss
    \/ ColorAtHit
    \/ ColorAtReturn
    \/ ShadeHitLighting
    \/ ShadeHitRefracted
    \/ ShadeHitReturn
    \/ ReflectedColorBlack
    \/ ReflectedColorCall
    \/ ReflectedColorReturn
    \/ RefractedColorBlack
    \/ RefractedColorCall
    \/ RefractedColorReturn

SpecShade == InitShade /\ [][NextShade]_vars

\* every call that can take a step eventually does: the recursion is
\* sequential code that runs to completion
SpecShadeFair == SpecShade /\ WF_vars(NextShade)

-----------------------------------------------------------------------------
(* Properties of the shading recursion *)

\* number of calls of fn in progress
Depth(fn) == Cardinality({k \in 1..Len(stack) : stack[k].fn = fn})

\* C6 as stated: one color_at(ray, n) performs at most n + 1 shade_hit
\* evaluations in total.
C6_ShadeHitBudget ==
    entry.fn = "color_at" => shadeCount <= entry.remaining + 1

\* C6 amended: one color_at(ray, n) performs at most 2^(n+1) - 1 shade_hit
\* evaluations in total, of which at most n + 1 are in progress (nested) at
\* any time.
C6_ShadeHitTreeBound ==
    entry.fn = "color_at" =>
        /\ shadeCount <= 2 ^ (entry.remaining + 1) - 1
        /\ Depth("shade_hit") <= entry.remaining + 1

\* a color_at with a positive budget has returned after a full binary tree of
\* shade_hit evaluations
C6_Witness ==
    /\ entry.fn = "color_at"
    /\ entry.remaining >= 1
    /\ stack = <<>>
    /\ lastOp.op = "color_at"
    /\ shadeCount = 2 ^ (entry.remaining + 1) - 1
    /\ shadeCount > entry.remaining + 1

C7_Decrements ==
    \A k \in 1..(Len(stack) - 1) :
        stack[k].fn \in {"reflected_color", "refracted_color"} =>
            /\ stack[k].remaining >= 1
            /\ stack[k + 1].fn = "color_at"
            /\ stack[k + 1].remaining = stack[k].remaining - 1

\* C7: reflected_color and refracted_color call color_at only with a budget
\* r >= 1 and pass r - 1; the depth of color_at(ray, n) never exceeds n + 1,
\* and every call returns.
C7_BudgetDecrements ==
    /\ [](C7_Decrements /\ (entry.fn = "color_at" => Depth("color_at") <= entry.remaining + 1))
    /\ <>(stack = <<>>)

\* the recursion between fully reflective surfaces has used up a positive
\* budget: n + 1 nested color_at calls, the innermost with budget 0
C7_Witness ==
    /\ entry.fn = "color_at"
    /\ entry.remaining >= 1
    /\ Depth("color_at") = entry.remaining + 1
    /\ Depth("refracted_color") = 0
    /\ Top.fn = "reflected_color" /\ Top.remaining = 0 /\ Top.comps.reflective = 1
    /\ \A k \in 1..Len(stack) :
          stack[k].fn = "reflected_color" => stack[k].comps.reflective = 1

\* C8: reflected_color(comps, 0) and refracted_color(comps, 0) return black
\* without calling color_at, whatever the material.
C8_ZeroBudgetBlack ==
    [][(/\ stack # <<>>
        /\ Top.fn \in {"reflected_color", "refracted_color"}
        /\ Top.pc = "start"
        /\ Top.remaining = 0)
       => (stack' = Pop /\ ret' = Black)]_vars

\* shade_hit with budget 0 on a reflective, transparent material without
\* total internal reflection: both calls have returned black
C8_Witness ==
    /\ stack # <<>>
    /\ Top.fn = "shade_hit" /\ Top.pc = "refracted_color" /\ Top.remaining = 0
    /\ Top.comps.reflective = 1 /\ Top.comps.transparency = 1 /\ ~Top.comps.tir
    /\ Top.reflected = Black
    /\ lastOp.op = "refracted_color" /\ lastOp.remaining = 0 /\ lastOp.pc = "start"
    /\ ret = Black

\* C15: shade_hit returns local + reflected * R + refracted * (1 - R), R the
\* Schlick reflectance, when the material has reflective > 0 and
\* transparency > 0, and local + reflected + refracted in every other case.
C15_SchlickBlend ==
    lastOp.op = "shade_hit" =>
        ret = IF lastOp.comps.reflective > 0 /\ lastOp.comps.transparency > 0
              THEN lastOp.surface + lastOp.reflected * lastOp.comps.schlick
                       + lastOp.refracted * (1 - lastOp.comps.schlick)
              ELSE lastOp.surface + lastOp.reflected + lastOp.refracted

\* shade_hit has returned for a reflective and transparent material with
\* non-black reflected and refracted colours: the blend, not the sum
C15_Witness ==
    /\ lastOp.op = "shade_hit"
    /\ lastOp.comps.reflective > 0 /\ lastOp.comps.transparency > 0
    /\ lastOp.reflected # Black /\ lastOp.refracted # Black
    /\ ret = lastOp.surface + lastOp.reflected
    /\ ret # lastOp.surface + lastOp.reflected + lastOp.refracted

-----------------------------------------------------------------------------
(* src/intersection.rs: prepare_computations and hit.  An intersection is   *)
(* [t, object]; an object is [id, refractive_index].  Refractive indices    *)
(* are in tenths (15 is 1.5), t values are integers.                        *)

MaxCrossings == 6

MaxHits == 4

\* refractive index of the empty container: 1.0
Vacuum == 10

\* the three glass spheres of transluscence_1
GlassA == [id |-> 1, refractive_index |-> 15]

GlassB == [id |-> 2, refractive_index |-> 20]

GlassC == [id |-> 3, refractive_index |-> 25]

Glass == {GlassA, GlassB, GlassC}

Intersection(t, object) == [t |-> t, object |-> object]

\* container.last().map_or(1.0, |s| s.material().refractive_index)
LastRefractiveIndex(container) ==
    IF container = <<>> THEN Vacuum
    ELSE container[Len(container)].refractive_index

\* container.iter().position(|x| x.id() == object.id()), 0 for None
Position(container, object) ==
    LET found == {k \in 1..Len(container) : container[k].id = object.id}
    IN  IF found = {} THEN 0 ELSE CHOOSE k \in found : \A j \in found : k <= j

\* a removal that pops the innermost shape whatever the index found
RemoveLast(container, index) == SubSeq(container, 1, Len(container) - 1)

\* Vec::remove
Remove(container, index) ==
    SubSeq(container, 1, index - 1) \o SubSeq(container, index + 1, Len(container))

\* a container that only ever grows
ToggleAlwaysPush(container, object) == Append(container, object)

\* the match on position: remove the object if present, push it otherwise
Toggle(container, object) ==
    LET index == Position(container, object)
    IN  IF index # 0 THEN Remove(container, index) ELSE Append(container, object)

RECURSIVE PrepareLoop(_, _, _, _, _)

\* the loop "for i in int_list" from position k on; std::ptr::eq(i, self)
\* holds at position me
PrepareLoop(xs, k, me, container, comps) ==
    IF k > Len(xs) THEN comps
    ELSE LET i == xs[k]
             comps1 == IF k = me
                       THEN [comps EXCEPT !.n1 = LastRefractiveIndex(container)]
                       ELSE comps
             container1 == Toggle(container, i.object)
         IN  IF k = me
             THEN [comps1 EXCEPT !.n2 = LastRefractiveIndex(container1)]
             ELSE PrepareLoop(xs, k + 1, me, container1, comps1)

\* a prepare_computations whose self is a copy of the hit, equal to an
\* element of int_list but at another address
PrepareComputationsOfCopy(me, xs) ==
    PrepareLoop(xs, 1, 0, <<>>, [n1 |-> 0, n2 |-> 0])

\* Intersection::prepare_computations: the n1 / n2 part of the result; me is
\* the position of self in int_list, 0 when self is not an element of it
PrepareComputations(me, xs) ==
    PrepareLoop(xs, 1, me, <<>>, [n1 |-> 0, n2 |-> 0])

\* a filter that also drops t = 0
HitFilterPositive(i) == i.t > 0

\* the filter of hit: |i| i.t >= 0.0
HitFilter(i) == i.t >= 0

RECURSIVE HitLoop(_, _, _)

\* filter(..).min_by(..) from position k on; best is the position of the
\* minimum so far (0: none), replaced only by a strictly smaller t
HitLoop(xs, k, best) ==
    IF k > Len(xs) THEN best
    ELSE IF ~HitFilter(xs[k]) THEN HitLoop(xs, k + 1, best)
    ELSE IF best = 0 THEN HitLoop(xs, k + 1, k)
    ELSE IF xs[best].t > xs[k].t THEN HitLoop(xs, k + 1, k)
    ELSE HitLoop(xs, k + 1, best)

\* Intersection::hit: position of the returned element, 0 for None
Hit(xs) == HitLoop(xs, 1, 0)

\* sorted lists of crossings of the three glass spheres: t is the position
CrossingLists ==
    UNION {[1..n -> Glass] : n \in 0..MaxCrossings}

TVals == {-3, 0, 2, 5, 7}

InitPrep ==
    /\ IdleGroup
    /\ IdleShade
    /\ IdleScene
    /\ IdleRender
    /\ IdleIds
    /\ lastOp = NoOp
    /\ result = [done |-> FALSE]
    /\ \E objects \in CrossingLists :
          /\ int_list = [k \in DOMAIN objects |-> Intersection(k, objects[k])]
          /\ self \in 0..Len(objects)

\* i.prepare_computations(&ray, &xs)
PrepareComputationsCall ==
    /\ lastOp.op = "none"
    /\ result' = [done |-> TRUE, comps |-> PrepareComputations(self, int_list)]
    /\ lastOp' = [op |-> "prepare_computations"]
    /\ UNCHANGED <<int_list, self, groupVars, shadeVars, sceneVars, renderVars, idVars>>

NextPrep == PrepareComputationsCall

SpecPrep == InitPrep /\ [][NextPrep]_vars

InitHit ==
    /\ IdleGroup
    /\ IdleShade
    /\ IdleScene
    /\ IdleRender
    /\ IdleIds
    /\ lastOp = NoOp
    /\ result = [done |-> FALSE]
    /\ self = 0
    /\ \E n \in 0..MaxHits : \E ts \in [1..n -> TVals] :
          int_list = [k \in 1..n |-> Intersection(ts[k], GlassA)]

\* Intersection::hit(&xs)
HitCall ==
    /\ lastOp.op = "none"
    /\ result' = [done |-> TRUE, index |-> Hit(int_list)]
    /\ lastOp' = [op |-> "hit"]
    /\ UNCHANGED <<int_list, self, groupVars, shadeVars, sceneVars, renderVars, idVars>>

NextHit == HitCall

SpecHit == InitHit /\ [][NextHit]_vars

-----------------------------------------------------------------------------
(* Properties of prepare_computations and hit *)

Objects(xs) == [k \in DOMAIN xs |-> xs[k].object]

Ts(xs) == [k \in DOMAIN xs |-> xs[k].t]

\* the crossings A, B, C, B, C, A of transluscence_1
SixCrossings == <<GlassA, GlassB, GlassC, GlassB, GlassC, GlassA>>

ExpectedN1N2 ==
    << <<10, 15>>, <<15, 20>>, <<20, 25>>, <<25, 25>>, <<25, 15>>, <<15, 10>> >>

\* C9: for the crossings A, B, C, B, C, A (indices 1.5, 2.0, 2.5) the k-th
\* element gets (n1, n2) = (1.0,1.5), (1.5,2.0), (2.0,2.5), (2.5,2.5),
\* (2.5,1.5), (1.5,1.0).
C9_NestedGlassIndices ==
    (lastOp.op = "prepare_computations" /\ Objects(int_list) = SixCrossings /\ self # 0) =>
        <<result.comps.n1, result.comps.n2>> = ExpectedN1N2[self]

\* the fourth crossing (leaving B while inside C) has been prepared
C9_Witness ==
    /\ lastOp.op = "prepare_computations"
    /\ Objects(int_list) = SixCrossings
    /\ self = 4
    /\ result.comps = [n1 |-> 25, n2 |-> 25]

NonNegative(xs) == {k \in DOMAIN xs : xs[k].t >= 0}

\* t of the element hit returns, as a set: empty for None
HitT(xs) == IF Hit(xs) = 0 THEN {} ELSE {xs[Hit(xs)].t}

\* C10: hit returns none when no element has t >= 0, otherwise an element
\* whose t is the least t >= 0 of the list; the t returned is the same for
\* every permutation of the list, and it is 2 for [5, 7, -3, 2].
C10_HitIsLeastNonNegative ==
    lastOp.op = "hit" =>
        /\ NonNegative(int_list) = {} => result.index = 0
        /\ NonNegative(int_list) # {} =>
              /\ result.index \in NonNegative(int_list)
              /\ \A k \in NonNegative(int_list) : int_list[result.index].t <= int_list[k].t
        /\ \A p \in Permutations(DOMAIN int_list) :
              HitT([k \in DOMAIN int_list |-> int_list[p[k]]]) = HitT(int_list)
        /\ Ts(int_list) = <<5, 7, -3, 2>> => int_list[result.index].t = 2

\* hit has been applied to [5, 7, -3, 2]
C10_Witness ==
    /\ lastOp.op = "hit"
    /\ Ts(int_list) = <<5, 7, -3, 2>>
    /\ result.index = 4

-----------------------------------------------------------------------------
(* src/ray.rs, Shape::intersect, World::intersect, World::is_shadowed:     *)
(* queries on a finished scene.  A ray is [origin, direction] on the line   *)
(* of the model, with a direction of length 1; an intersection is           *)
(* [t, object] with object the id of the shape hit.  On a line every ray    *)
(* meets every sphere (twice) and every plane (once), before or behind its  *)
(* origin.                                                                  *)

\* leaves placed per scene
MaxLeaves == 2

Ray(origin, direction) == [origin |-> origin, direction |-> direction]

\* Ray::transform: the origin is a point (w = 1), the direction a vector (w = 0)
RayTransform(ray, mat) ==
    Ray(mat[1] * ray.origin + mat[2], mat[1] * ray.direction)

\* f64::sqrt on the perfect squares that occur
Sqrt(x) == CHOOSE r \in 0..x : r * r = x

\* Sphere::local_intersect
SphereLocalIntersect(id, ray) ==
    LET sphere_to_ray == ray.origin
        a == ray.direction * ray.direction
        b == ray.direction * sphere_to_ray * 2
        c == sphere_to_ray * sphere_to_ray - 1
        discriminant == b * b - 4 * a * c
    IN  IF discriminant < 0 THEN <<>>
        ELSE << Intersection(Quot(-b - Sqrt(discriminant), 2 * a), [id |-> id]),
                Intersection(Quot(-b + Sqrt(discriminant), 2 * a), [id |-> id]) >>

\* Plane::local_intersect
PlaneLocalIntersect(id, ray) ==
    IF (IF ray.direction < 0 THEN -ray.direction ELSE ray.direction) * EpsilonInverse < 1
    THEN <<>>
    ELSE << Intersection(Quot(-ray.origin, ray.direction), [id |-> id]) >>

\* a Group::intersect that first takes the ray into the group's own space
GroupRayInObjectSpace(sh, id, ray) == RayTransform(ray, sh[id].inverse)

\* Group::intersect: the ray its children are given
GroupRay(sh, id, ray) == ray

RECURSIVE ShapeIntersect(_, _, _)
RECURSIVE GroupIntersectLoop(_, _, _, _, _)

\* the loop "for child in &self.children" of Group::intersect, from position k on
GroupIntersectLoop(sh, children, k, ray, xs) ==
    IF k > Len(children) THEN xs
    ELSE GroupIntersectLoop(sh, children, k + 1, ray,
                            xs \o ShapeIntersect(sh, children[k], ray))

\* Shape::intersect, dispatched on the variant: the default method for a leaf,
\* the override for a group
ShapeIntersect(sh, id, ray) ==
    IF sh[id].kind = "group"
    THEN GroupIntersectLoop(sh, sh[id].children, 1, GroupRay(sh, id, ray), <<>>)
    ELSE LET local_ray == RayTransform(ray, sh[id].inverse)
         IN  IF sh[id].kind = "sphere"
             THEN SphereLocalIntersect(id, local_ray)
             ELSE PlaneLocalIntersect(id, local_ray)

\* a sort that also drops an element equal in t to one already placed
SortedInsertDedup(sorted, x) ==
    LET before == {k \in 1..Len(sorted) : sorted[k].t <= x.t}
        n == Cardinality(before)
    IN  IF \E k \in before : sorted[k].t = x.t THEN sorted
        ELSE SubSeq(sorted, 1, n) \o <<x>> \o SubSeq(sorted, n + 1, Len(sorted))

\* one insertion of the stable sort by t (Ord for Intersection compares t)
SortedInsert(sorted, x) ==
    LET before == {k \in 1..Len(sorted) : sorted[k].t <= x.t}
        n == Cardinality(before)
    IN  SubSeq(sorted, 1, n) \o <<x>> \o SubSeq(sorted, n + 1, Len(sorted))

RECURSIVE SortLoop(_, _, _)

SortLoop(xs, k, sorted) ==
    IF k > Len(xs) THEN sorted
    ELSE SortLoop(xs, k + 1, SortedInsert(sorted, xs[k]))

\* xs.sort()
Sort(xs) == SortLoop(xs, 1, <<>>)

\* World::intersect
WorldIntersect(sh, shapes_of_world, ray) ==
    Sort(GroupIntersectLoop(sh, shapes_of_world, 1, ray, <<>>))

\* an is_shadowed that takes any hit in front of the point as an occluder
IsShadowedAnyHit(sh, shapes_of_world, light, point) ==
    LET v == light - point
        dist == IF v < 0 THEN -v ELSE v
        dir == Quot(v, dist)
        r == Ray(point, dir)
        intersections == WorldIntersect(sh, shapes_of_world, r)
        h == Hit(intersections)
    IN  [shadowed |-> h # 0,
         calls |-> <<"intersect", "hit">>]

\* World::is_shadowed on the line: v = light - point, dist = |v|, dir = v / |v|;
\* calls lists the functions of World and Intersection it calls
IsShadowed(sh, shapes_of_world, light, point) ==
    LET v == light - point
        dist == IF v < 0 THEN -v ELSE v
        dir == Quot(v, dist)
        r == Ray(point, dir)
        intersections == WorldIntersect(sh, shapes_of_world, r)
        h == Hit(intersections)
    IN  [shadowed |-> h # 0 /\ intersections[h].t < dist,
         calls |-> <<"intersect", "hit">>]

-----------------------------------------------------------------------------
(* Queries on a scene.  A scene is assembled by the program from two groups *)
(* (ids 1 and 2, given the transforms T and U while still empty) and up to  *)
(* MaxLeaves leaves, each built with a transform of its own and then kept   *)
(* at top level or added to one of the groups; group 2 is finally left at   *)
(* top level or added to group 1.  World.shapes holds the top-level shapes. *)

SceneLeaves ==
    {[kind |-> "sphere", mat |-> Eye],
     [kind |-> "sphere", mat |-> Translation(3)],
     [kind |-> "sphere", mat |-> Mul(Scaling(-1), Translation(1))],
     [kind |-> "plane", mat |-> Translation(1)]}

\* where a leaf goes: 0 is the world, 1 and 2 are the groups
Places == 0..2

Blueprints ==
    [leaves : UNION {[1..n -> [shape : SceneLeaves, place : Places]] : n \in 0..MaxLeaves},
     T : {Eye, Translation(2)},
     U : {Eye, Scaling(-1)},
     nested : BOOLEAN]

\* Sphere::with_transformation(mat) / Plane::with_transformation(mat)
NewLeaf(shape) ==
    IF shape.kind = "sphere" THEN NewSphere(shape.mat) ELSE NewPlane(shape.mat)

RECURSIVE AddLeaves(_, _, _)

\* the leaves are built in order, each added to its group right away
AddLeaves(st, leaves, k) ==
    IF k > Len(leaves) THEN st
    ELSE LET st1 == [st EXCEPT !.sh = Append(@, NewLeaf(leaves[k].shape))]
             st2 == IF leaves[k].place = 0 THEN st1
                    ELSE AddChild(st1, leaves[k].place, Len(st1.sh))
         IN  AddLeaves(st2, leaves, k + 1)

BuildScene(p) ==
    LET st0 == [sh |-> <<NewGroup, NewGroup>>, ok |-> TRUE]
        st1 == SetTransformation(st0, 1, p.T)
        st2 == SetTransformation(st1, 2, p.U)
        st3 == AddLeaves(st2, p.leaves, 1)
    IN  IF p.nested THEN AddChild(st3, 1, 2) ELSE st3

RECURSIVE Ascending(_)

\* the elements of a set of numbers as an increasing sequence
Ascending(S) ==
    IF S = {} THEN <<>>
    ELSE LET m == CHOOSE x \in S : \A y \in S : x <= y
         IN  <<m>> \o Ascending(S \ {m})

\* World::add_shape for every shape that was not added to a group
TopLevel(sh) ==
    Ascending({i \in DOMAIN sh : ~\E g \in DOMAIN sh : i \in ChildSet(sh, g)})

Rays == {Ray(origin, direction) : origin \in {-4, 0, 2}, direction \in {-1, 1}}

Lights == {-6, 3}

Points == {-8, -2, 0, 2, 7}

InitScene ==
    /\ IdleShade
    /\ IdleList
    /\ IdleRender
    /\ IdleIds
    /\ lastOp = NoOp
    /\ own = <<>>
    /\ aborted = FALSE
    /\ ops = 0
    /\ \E p \in Blueprints :
          /\ shapes = BuildScene(p).sh
          /\ world = TopLevel(BuildScene(p).sh)

\* world.intersect(&ray)
WorldIntersectCall ==
    /\ lastOp.op = "none"
    /\ \E ray \in Rays :
          /\ result' = [done |-> TRUE, xs |-> WorldIntersect(shapes, world, ray)]
          /\ lastOp' = [op |-> "intersect", ray |-> ray]
    /\ UNCHANGED <<int_list, self, groupVars, shadeVars, sceneVars, renderVars, idVars>>

\* world.is_shadowed(&point)
IsShadowedCall ==
    /\ lastOp.op = "none"
    /\ \E light \in Lights : \E point \in Points :
          /\ result' = [done |-> TRUE, out |-> IsShadowed(shapes, world, light, point)]
          /\ lastOp' = [op |-> "is_shadowed", light |-> light, point |-> point]
    /\ UNCHANGED <<int_list, self, groupVars, shadeVars, sceneVars, renderVars, idVars>>

\* g.intersect(&ray) on a group
GroupIntersectCall ==
    /\ lastOp.op = "none"
    /\ \E g \in DOMAIN shapes : \E ray \in Rays :
          /\ shapes[g].kind = "group"
          /\ result' = [done |-> TRUE, xs |-> ShapeIntersect(shapes, g, ray)]
          /\ lastOp' = [op |-> "group_intersect", target |-> g, ray |-> ray]
    /\ UNCHANGED <<int_list, self, groupVars, shadeVars, sceneVars, renderVars, idVars>>

\* g.bounds() on a group
GroupBoundsCall ==
    /\ lastOp.op = "none"
    /\ \E g \in DOMAIN shapes :
          /\ shapes[g].kind = "group"
          /\ result' = [done |-> TRUE, bounds |-> Bounds(shapes, g)]
          /\ lastOp' = [op |-> "bounds", target |-> g]
    /\ UNCHANGED <<int_list, self, groupVars, shadeVars, sceneVars, renderVars, idVars>>

\* a local_intersect of Group that reports no intersection
GroupLocalIntersectEmpty(sh, id, ray) == [ok |-> TRUE, out |-> <<>>]

\* Group::local_intersect: panic!(..), whatever the ray
GroupLocalIntersect(sh, id, ray) == [ok |-> FALSE, out |-> <<>>]

\* Group::local_normal_at: panic!(..), whatever the point
GroupLocalNormalAt(sh, id, local_point) == [ok |-> FALSE, out |-> 0]

LocalPoints == {-1, 1}

\* g.local_intersect(&ray) on a group
GroupLocalIntersectCall ==
    /\ lastOp.op = "none"
    /\ \E g \in DOMAIN shapes : \E ray \in Rays :
          /\ shapes[g].kind = "group"
          /\ LET r == GroupLocalIntersect(shapes, g, ray)
             IN  /\ aborted' = ~r.ok
                 /\ result' = IF r.ok THEN [done |-> TRUE, xs |-> r.out] ELSE result
          /\ lastOp' = [op |-> "local_intersect", target |-> g, ray |-> ray]
    /\ UNCHANGED <<shapes, own, ops, int_list, self, shadeVars, sceneVars, renderVars, idVars>>

\* g.local_normal_at(point, &i) on a group
GroupLocalNormalAtCall ==
    /\ lastOp.op = "none"
    /\ \E g \in DOMAIN shapes : \E local_point \in LocalPoints :
          /\ shapes[g].kind = "group"
          /\ LET r == GroupLocalNormalAt(shapes, g, local_point)
             IN  /\ aborted' = ~r.ok
                 /\ result' = IF r.ok THEN [done |-> TRUE, normal |-> r.out] ELSE result
          /\ lastOp' = [op |-> "local_normal_at", target |-> g, point |-> local_point]
    /\ UNCHANGED <<shapes, own, ops, int_list, self, shadeVars, sceneVars, renderVars, idVars>>

NextScene ==
    \/ WorldIntersectCall
    \/ IsShadowedCall
    \/ GroupIntersectCall
    \/ GroupBoundsCall
    \/ GroupLocalIntersectCall
    \/ GroupLocalNormalAtCall

SpecScene == InitScene /\ [][NextScene]_vars

-----------------------------------------------------------------------------
(* Properties of the scene queries *)

Leaves(sh) == {i \in DOMAIN sh : sh[i].kind # "group"}

\* number of occurrences of x in xs
Count(xs, x) == Cardinality({k \in DOMAIN xs : xs[k] = x})

SortedByT(xs) == \A k \in 1..(Len(xs) - 1) : xs[k].t <= xs[k + 1].t

\* xs holds what the leaves in ids produce for the ray, each intersection as
\* often as its leaf produces it, and nothing else
ExactlyTheIntersectionsOf(xs, sh, ids, ray) ==
    /\ \A k \in DOMAIN xs :
          /\ xs[k].object.id \in ids
          /\ Count(xs, xs[k]) = Count(ShapeIntersect(sh, xs[k].object.id, ray), xs[k])
    /\ \A l \in ids :
          LET own_xs == ShapeIntersect(sh, l, ray)
          IN  \A j \in DOMAIN own_xs : Count(xs, own_xs[j]) = Count(own_xs, own_xs[j])

\* C11: World.intersect returns exactly the intersections of the leaves of
\* the scene (top-level ones and descendants of top-level groups), none
\* dropped or duplicated, in non-decreasing order of t; the t values do not
\* depend on the order of World.shapes.
C11_WorldIntersectSorted ==
    lastOp.op = "intersect" =>
        /\ SortedByT(result.xs)
        /\ ExactlyTheIntersectionsOf(result.xs, shapes, Leaves(shapes), lastOp.ray)
        /\ \A p \in Permutations(DOMAIN world) :
              Ts(WorldIntersect(shapes, [k \in DOMAIN world |-> world[p[k]]], lastOp.ray))
                  = Ts(result.xs)

\* a world of a group with a nested group and a top-level leaf was
\* intersected; the shapes produced their intersections out of order, and two
\* of them share their t
C11_Witness ==
    /\ lastOp.op = "intersect"
    /\ Len(world) >= 2
    /\ ChildSet(shapes, 2) # {}
    /\ 2 \in ChildSet(shapes, 1)
    /\ Len(result.xs) >= 3
    /\ ~SortedByT(GroupIntersectLoop(shapes, world, 1, lastOp.ray, <<>>))
    /\ \E k \in 1..(Len(result.xs) - 1) : result.xs[k].t = result.xs[k + 1].t

\* the intersections of every leaf of the scene with the ray from point
\* toward light, as a set
ShadowRayCrossings(light, point) ==
    LET r == Ray(point, IF light < point THEN -1 ELSE 1)
    IN  UNION {{ShapeIntersect(shapes, l, r)[j] : j \in DOMAIN ShapeIntersect(shapes, l, r)} :
               l \in Leaves(shapes)}

Distance(a, b) == IF a < b THEN b - a ELSE a - b

\* C16: is_shadowed(p) is true exactly when the ray from p toward the light
\* has an intersection with 0 <= t < distance(p, light); it calls
\* World.intersect once and neither shade_hit nor color_at.
C16_ShadowTest ==
    lastOp.op = "is_shadowed" =>
        /\ result.out.shadowed <=>
               \E i \in ShadowRayCrossings(lastOp.light, lastOp.point) :
                   0 <= i.t /\ i.t < Distance(lastOp.point, lastOp.light)
        /\ Count(result.out.calls, "intersect") = 1
        /\ Count(result.out.calls, "shade_hit") = 0
        /\ Count(result.out.calls, "color_at") = 0

\* a point found lit although the ray toward the light meets one shape
\* behind the point and another one beyond the light
C16_Witness ==
    /\ lastOp.op = "is_shadowed"
    /\ ~result.out.shadowed
    /\ \E i \in ShadowRayCrossings(lastOp.light, lastOp.point) : i.t < 0
    /\ \E i \in ShadowRayCrossings(lastOp.light, lastOp.point) :
           i.t >= Distance(lastOp.point, lastOp.light)

RECURSIVE Concat(_, _)

\* the first n lists of a sequence of lists, one after the other
Concat(lists, n) ==
    IF n = 0 THEN <<>> ELSE Concat(lists, n - 1) \o lists[n]

\* C17: Group.intersect(ray) returns the concatenation, in child order, of
\* child.intersect(ray) over every child, each child given the ray as the
\* group received it; a group with no children returns an empty list.
C17_GroupIntersectFanOut ==
    lastOp.op = "group_intersect" =>
        LET children == shapes[lastOp.target].children
            per_child == [k \in DOMAIN children |->
                             ShapeIntersect(shapes, children[k], lastOp.ray)]
        IN  /\ result.xs = Concat(per_child, Len(children))
            /\ children = <<>> => result.xs = <<>>

\* a group with a transform of its own and two children or more was
\* intersected: the result is not what the ray taken into the group's space
\* would have produced
C17_Witness ==
    /\ lastOp.op = "group_intersect"
    /\ shapes[lastOp.target].transform # Eye
    /\ Len(shapes[lastOp.target].children) >= 2
    /\ Len(result.xs) >= 3
    /\ result.xs # GroupIntersectLoop(shapes, shapes[lastOp.target].children, 1,
                                      RayTransform(lastOp.ray, shapes[lastOp.target].inverse),
                                      <<>>)

\* the boxes the leaf descendants of a group contribute: the object-space
\* bounds of a leaf transformed by its stored transform, when finite
Contributions(sh, g) ==
    {BoundsTransform(IF sh[l].kind = "plane" THEN PlaneBounds ELSE SphereBounds,
                     sh[l].transform) :
        l \in {d \in Descendants(sh, g) : sh[d].kind = "sphere"}}

\* C18: Group.bounds() is the min/max union, over the leaf descendants with
\* a finite contribution, of the leaf's object-space bounds transformed by
\* the leaf's stored transform; a child with non-finite bounds (a plane, a
\* nested group without finite leaves) contributes nothing.
C18_GroupBoundsUnion ==
    lastOp.op = "bounds" =>
        LET C == Contributions(shapes, lastOp.target)
        IN  IF C = {} THEN ~result.bounds.finite
            ELSE /\ result.bounds.finite
                 /\ \E c \in C : result.bounds.min = c.min
                 /\ \A c \in C : result.bounds.min <= c.min
                 /\ \E c \in C : result.bounds.max = c.max
                 /\ \A c \in C : result.bounds.max >= c.max

\* the bounds of a group were taken that holds a sphere and a plane, the
\* plane lying outside the box returned
C18_Witness ==
    /\ lastOp.op = "bounds"
    /\ Contributions(shapes, lastOp.target) # {}
    /\ result.bounds.finite
    /\ \E c \in ChildSet(shapes, lastOp.target) :
           /\ shapes[c].kind = "plane"
           /\ LET at == BoundsTransform(PlaneBounds, shapes[c].transform).min
              IN  at < Min(result.bounds.min, result.bounds.max)
                  \/ at > Max(result.bounds.min, result.bounds.max)

\* C22: local_intersect and local_normal_at on a Group abort for every
\* argument; neither returns a value, be it an empty list or a zero vector.
C22_GroupLocalCallsAbort ==
    lastOp.op \in {"local_intersect", "local_normal_at"} =>
        /\ aborted
        /\ ~result.done

\* local_intersect was called on a group whose intersect gives a non-empty
\* list for the same ray, and the program aborted
C22_Witness ==
    /\ lastOp.op = "local_intersect"
    /\ aborted
    /\ ShapeIntersect(shapes, lastOp.target, lastOp.ray) # <<>>

-----------------------------------------------------------------------------
(* src/camera.rs, src/canvas.rs: Camera::render.  One task per pixel runs   *)
(* on a pool of max_threads workers; collect() returns the vector of        *)
(* ((x, y), color) pairs once every task has finished, and the calling      *)
(* thread then writes the pairs to the canvas one by one.  The colour a     *)
(* task computes is opaque to the assembly: the task of pixel (x, y)        *)
(* computes ColorOf(x, y), a different value for every pixel.               *)

\* largest hsize and vsize
MaxSide == 2

\* largest max_threads
MaxThreads == 2

\* Canvas::new
CanvasNew(width, height) ==
    [width |-> width, height |-> height, pixels |-> [i \in 1..(width * height) |-> Black]]

\* an index that takes x for the row
CanvasIndexTransposed(canvas, x, y) == x * canvas.width + y

\* Index / IndexMut for Canvas: i = y * self.width + x
CanvasIndex(canvas, x, y) == y * canvas.width + x

\* Canvas::set_pixel; Vec positions count from 0, sequence positions from 1
SetPixel(canvas, x, y, color) ==
    [canvas EXCEPT !.pixels[CanvasIndex(canvas, x, y) + 1] = color]

\* what world.color_at gives the task of pixel (x, y)
ColorOf(x, y) == 1 + x + 10 * y

\* (0..vsize).flat_map(|y| (0..hsize).map(move |x| (x, y))), each with its task
Pixels(hsize, vsize) ==
    [k \in 1..(hsize * vsize) |->
        [x |-> (k - 1) % hsize, y |-> (k - 1) \div hsize, status |-> "queued", color |-> Black]]

Running == {k \in DOMAIN tasks : tasks[k].status = "running"}

AllDone == \A k \in DOMAIN tasks : tasks[k].status = "done"

\* camera.render(&world) has been called
InitRender ==
    /\ IdleGroup
    /\ IdleShade
    /\ IdleList
    /\ IdleScene
    /\ IdleIds
    /\ \E hsize \in 1..MaxSide : \E vsize \in 1..MaxSide : \E max_threads \in 1..MaxThreads :
          /\ lastOp = [op |-> "render", hsize |-> hsize, vsize |-> vsize,
                       max_threads |-> max_threads]
          /\ image = CanvasNew(hsize, vsize)
          /\ tasks = Pixels(hsize, vsize)
    /\ collected = FALSE
    /\ writes = <<>>

\* a free worker of the pool takes a task
TaskStart ==
    /\ lastOp.op = "render"
    /\ Cardinality(Running) < lastOp.max_threads
    /\ \E k \in DOMAIN tasks :
          /\ tasks[k].status = "queued"
          /\ tasks' = [tasks EXCEPT ![k].status = "running"]
    /\ UNCHANGED <<collected, image, writes, lastOp, groupVars, shadeVars, listVars,
                   sceneVars, idVars>>

\* the closure of a task returns ((x, y), color)
TaskFinish ==
    /\ lastOp.op = "render"
    /\ \E k \in Running :
          tasks' = [tasks EXCEPT ![k].status = "done",
                                 ![k].color = ColorOf(tasks[k].x, tasks[k].y)]
    /\ UNCHANGED <<collected, image, writes, lastOp, groupVars, shadeVars, listVars,
                   sceneVars, idVars>>

\* collect() returns to the calling thread
Collect ==
    /\ lastOp.op = "render"
    /\ ~collected
    /\ AllDone
    /\ collected' = TRUE
    /\ UNCHANGED <<tasks, image, writes, lastOp, groupVars, shadeVars, listVars,
                   sceneVars, idVars>>

\* one iteration of "for ((x, y), color) in results"
WritePixel ==
    /\ lastOp.op = "render"
    /\ collected
    /\ Len(writes) < Len(tasks)
    /\ LET r == tasks[Len(writes) + 1]
       IN  /\ image' = SetPixel(image, r.x, r.y, r.color)
           /\ writes' = Append(writes, [index |-> CanvasIndex(image, r.x, r.y),
                                        by |-> "caller"])
    /\ UNCHANGED <<tasks, collected, lastOp, groupVars, shadeVars, listVars,
                   sceneVars, idVars>>

\* render returns the image
RenderReturn ==
    /\ lastOp.op = "render"
    /\ collected
    /\ Len(writes) = Len(tasks)
    /\ lastOp' = [lastOp EXCEPT !.op = "rendered"]
    /\ UNCHANGED <<renderVars, groupVars, shadeVars, listVars, sceneVars, idVars>>

NextRender ==
    \/ TaskStart
    \/ TaskFinish
    \/ Collect
    \/ WritePixel
    \/ RenderReturn

SpecRender == InitRender /\ [][NextRender]_vars

-----------------------------------------------------------------------------
(* Properties of render *)

\* C12: whatever the interleaving of the pixel tasks, the returned canvas
\* holds at (x, y) the colour computed by the task of (x, y), every pixel has
\* been written exactly once, and every write is made by the calling thread
\* after all tasks have finished.
C12_RenderAssembly ==
    /\ writes # <<>> => (collected /\ AllDone)
    /\ \A w \in DOMAIN writes :
          /\ writes[w].by = "caller"
          /\ \A v \in DOMAIN writes : writes[v].index = writes[w].index => v = w
    /\ lastOp.op = "rendered" =>
          /\ \A x \in 0..(lastOp.hsize - 1) : \A y \in 0..(lastOp.vsize - 1) :
                /\ image.pixels[y * lastOp.hsize + x + 1] = ColorOf(x, y)
                /\ Cardinality({w \in DOMAIN writes : writes[w].index = y * lastOp.hsize + x}) = 1
          /\ Len(writes) = lastOp.hsize * lastOp.vsize

\* a canvas wider than high has been rendered on more than one worker
C12_Witness ==
    /\ lastOp.op = "rendered"
    /\ lastOp.hsize > lastOp.vsize
    /\ lastOp.max_threads > 1
    /\ image.pixels = <<ColorOf(0, 0), ColorOf(1, 0)>>

-----------------------------------------------------------------------------
(* src/shapes/mod.rs: next_shape_id.  Several threads construct shapes at   *)
(* the same time.  A constructor first takes its id from the counter        *)
(* (one atomic fetch_add) and then builds the shape; the shape is kept on   *)
(* the heap with its id field, at the position at which it was finished.    *)
(* The owner of the finished shapes then applies the mutators to them.      *)

\* constructor calls per run
MaxIssued == 2

\* a counter read that leaves the counter as it is
FetchAddStale(counter) ==
    [value |-> counter, counter |-> counter]

\* SHAPE_ID.fetch_add(1, Ordering::Relaxed): returns the previous value; the
\* addition wraps at the width of usize
FetchAdd(counter) ==
    [value |-> counter, counter |-> (counter + 1) % UsizeModulus]

RECURSIVE SetMaterial(_, _, _)
RECURSIVE SetMaterialChildren(_, _, _, _)

\* the loop "for child in &mut self.children" of Group::set_material
SetMaterialChildren(st, children, k, material) ==
    IF k > Len(children) \/ ~st.ok THEN st
    ELSE IF ~Unique(st.sh, children[k]) THEN [st EXCEPT !.ok = FALSE]
    ELSE SetMaterialChildren(SetMaterial(st, children[k], material), children, k + 1,
                             material)

\* Shape::set_material, dispatched on the variant
SetMaterial(st, id, material) ==
    IF ~st.ok THEN st
    ELSE IF st.sh[id].kind = "group"
    THEN SetMaterialChildren(st, st.sh[id].children, 1, material)
    ELSE [st EXCEPT !.sh[id].material = material]

ThreadIds == 1..MaxThreads

InitIds ==
    /\ IdleGroup
    /\ IdleShade
    /\ IdleList
    /\ IdleScene
    /\ IdleRender
    /\ lastOp = NoOp
    /\ shape_id = 1
    /\ threads = [t \in ThreadIds |-> [pc |-> "idle", id |-> 0, kind |-> "none"]]
    /\ issued = <<>>

\* a thread enters Sphere::new() or Group::new(): "id: next_shape_id()"
ThreadNextShapeId ==
    /\ ~aborted
    /\ Len(issued) < MaxIssued
    /\ \E t \in ThreadIds : \E kind \in {"sphere", "group"} :
          /\ threads[t].pc = "idle"
          /\ threads' = [threads EXCEPT ![t] = [pc |-> "have_id",
                                                id |-> FetchAdd(shape_id).value,
                                                kind |-> kind]]
          /\ shape_id' = FetchAdd(shape_id).counter
          /\ issued' = Append(issued, FetchAdd(shape_id).value)
    /\ UNCHANGED <<lastOp, groupVars, shadeVars, listVars, sceneVars, renderVars>>

\* the constructor returns the shape with the id it took
ThreadConstruct ==
    /\ ~aborted
    /\ \E t \in ThreadIds :
          /\ threads[t].pc = "have_id"
          /\ shapes' = Append(shapes,
                 [id |-> threads[t].id] @@
                     (IF threads[t].kind = "sphere" THEN NewSphere(Eye) ELSE NewGroup))
          /\ threads' = [threads EXCEPT ![t] = [pc |-> "idle", id |-> 0, kind |-> "none"]]
          /\ lastOp' = [op |-> "new", target |-> Len(shapes) + 1, arg |-> 0, mat |-> Eye]
    /\ UNCHANGED <<own, aborted, ops, shape_id, issued, shadeVars, listVars, sceneVars,
                   renderVars>>

\* shape.set_transformation(translation) on a finished shape, before it is
\* given children or added to a group
OwnerSetTransformation ==
    /\ ~aborted
    /\ \E i \in Roots :
          /\ Unique(shapes, i)
          /\ shapes[i].children = <<>>
          /\ LET st1 == SetTransformation([sh |-> shapes, ok |-> TRUE], i, Translation(1))
             IN  /\ shapes' = st1.sh
                 /\ aborted' = ~st1.ok
          /\ lastOp' = [op |-> "owner_set_transformation"]
    /\ UNCHANGED <<own, ops, idVars, shadeVars, listVars, sceneVars, renderVars>>

\* shape.set_material(material) on a finished shape
OwnerSetMaterial ==
    /\ ~aborted
    /\ \E i \in Roots :
          LET st1 == SetMaterial([sh |-> shapes, ok |-> TRUE], i, 1)
          IN  /\ shapes' = st1.sh
              /\ aborted' = ~st1.ok
              /\ lastOp' = [op |-> "owner_set_material"]
    /\ UNCHANGED <<own, ops, idVars, shadeVars, listVars, sceneVars, renderVars>>

\* g.add_child(Arc::new(shape)) on finished shapes
OwnerAddChild ==
    /\ ~aborted
    /\ \E g \in Roots : \E shape \in Roots :
          /\ shapes[g].kind = "group"
          /\ shape # g
          /\ LET st1 == AddChild([sh |-> shapes, ok |-> TRUE], g, shape)
             IN  /\ shapes' = st1.sh
                 /\ aborted' = ~st1.ok
          /\ lastOp' = [op |-> "add_child", target |-> g, arg |-> shape,
                        mat |-> shapes[g].transform]
    /\ UNCHANGED <<own, ops, idVars, shadeVars, listVars, sceneVars, renderVars>>

NextIds ==
    \/ ThreadNextShapeId
    \/ ThreadConstruct
    \/ OwnerSetTransformation
    \/ OwnerSetMaterial
    \/ OwnerAddChild

SpecIds == InitIds /\ [][NextIds]_vars

-----------------------------------------------------------------------------
(* Properties of shape ids *)

\* the ids taken by constructors that have not returned yet
IdsInFlight == {t \in ThreadIds : threads[t].pc = "have_id"}

C13_IdsUnique ==
    /\ \A i, j \in DOMAIN shapes : shapes[i].id = shapes[j].id => i = j
    /\ \A t, u \in IdsInFlight : threads[t].id = threads[u].id => t = u
    /\ \A t \in IdsInFlight : \A i \in DOMAIN shapes : threads[t].id # shapes[i].id
    /\ \A k \in DOMAIN issued : issued[k] = k

\* C13: under any interleaving of concurrent constructions no two shapes get
\* the same id, the ids are issued as 1, 2, 3, ... without repetition, and
\* set_transformation, set_material and add_child leave every id as it is.
C13_IdsUniqueAndStable ==
    /\ []C13_IdsUnique
    /\ [][\A i \in DOMAIN shapes : shapes'[i].id = shapes[i].id]_vars

\* two constructors overlapped and finished in the opposite order of their
\* ids; the shapes were then re-transformed, given a material and grouped
C13_Witness ==
    /\ Len(shapes) >= 2
    /\ shapes[1].id = 2
    /\ shapes[2].id = 1
    /\ lastOp.op = "add_child"
    /\ \E i \in DOMAIN shapes : shapes[i].kind = "sphere" /\ shapes[i].material = 1
    /\ \E i \in DOMAIN shapes : shapes[i].transform # Eye

-----------------------------------------------------------------------------
(* Ownership of shape handles.  Shapes are passed around as Arc handles;   *)
(* strong counts the live handles to a shape, the one a group holds for a   *)
(* child included.  The program clones and drops handles at will.           *)

\* largest number of live clones, over all handles
MaxClones == 1

\* the shapes that have a clone of their handle alive, once per clone
Clones == {c \in Ids \X (1..MaxClones) : c[2] < shapes[c[1]].strong}

\* Arc::clone on a handle the program holds, or on an element of g.children
ArcClone ==
    /\ ~aborted
    /\ \E i \in Ids :
          /\ Cardinality(Clones) < MaxClones
          /\ shapes' = [shapes EXCEPT ![i].strong = @ + 1]
          /\ lastOp' = [op |-> "clone"]
    /\ UNCHANGED <<own, aborted, ops, shadeVars, listVars, sceneVars, renderVars, idVars>>

\* drop of a handle the program holds beside another live one
ArcDrop ==
    /\ ~aborted
    /\ \E i \in Ids :
          /\ shapes[i].strong > 1
          /\ shapes' = [shapes EXCEPT ![i].strong = @ - 1]
          /\ lastOp' = [op |-> "drop"]
    /\ UNCHANGED <<own, aborted, ops, shadeVars, listVars, sceneVars, renderVars, idVars>>

NextOwn ==
    \/ SphereNew
    \/ GroupNew
    \/ OwnerSetTransformation
    \/ GroupAddChild
    \/ ArcClone
    \/ ArcDrop

SpecOwn == InitGroup /\ [][NextOwn]_vars

-----------------------------------------------------------------------------
(* Properties of ownership *)

\* no shape is a child of two groups or twice a child of one group
SingleParent ==
    \A g, h \in Ids :
        \A j \in 1..Len(shapes[g].children) : \A k \in 1..Len(shapes[h].children) :
            shapes[g].children[j] = shapes[h].children[k] => (g = h /\ j = k)

\* C14: add_child with a handle that has another live owner panics and
\* leaves the group's children and the shape's transform as they were; so no
\* shape ever is a child of two groups or twice a child of one.
C14_AddChildUniqueOwner ==
    /\ [][(lastOp'.op = "add_child" /\ lastOp'.arg \in DOMAIN shapes
             /\ shapes[lastOp'.arg].strong > 1)
          => (aborted' /\ shapes' = shapes)]_vars
    /\ []SingleParent

\* add_child on a group with a transform of its own has panicked on a clone
\* of the handle of a shape that is a child of another group
C14_Witness ==
    /\ aborted
    /\ lastOp.op = "add_child"
    /\ shapes[lastOp.arg].strong = 2
    /\ shapes[lastOp.target].transform # Eye
    /\ \E h \in Ids : h # lastOp.target /\ lastOp.arg \in ChildSet(shapes, h)
    /\ lastOp.arg \notin ChildSet(shapes, lastOp.target)

-----------------------------------------------------------------------------
(* src/bounds.rs: Bounds::transform applied to one box and one matrix.  A   *)
(* box of the line is an interval with min <= max; an invertible affine     *)
(* transform of the line is x -> a * x + b with a # 0, a negative a being    *)
(* the reflection that a rotation by a half turn or a negative scaling      *)
(* performs on an axis.                                                     *)

\* largest coordinate of a box corner and largest scaling factor
MaxCoord == 2

Boxes ==
    {b \in [min : -MaxCoord..MaxCoord, max : -MaxCoord..MaxCoord, finite : {TRUE}] :
        b.min <= b.max}

\* invertible transforms: a scaling by a # 0 followed by a translation
AffineTransforms ==
    {Mul(Translation(b), Scaling(a)) : a \in (-MaxCoord..MaxCoord) \ {0}, b \in -1..1}

InitBounds ==
    /\ IdleGroup
    /\ IdleShade
    /\ IdleList
    /\ IdleScene
    /\ IdleRender
    /\ IdleIds
    /\ lastOp = NoOp

\* b.transform(&m)
BoundsTransformCall ==
    /\ lastOp.op = "none"
    /\ \E b \in Boxes : \E m \in AffineTransforms :
          /\ result' = [done |-> TRUE, bounds |-> BoundsTransform(b, m)]
          /\ lastOp' = [op |-> "bounds_transform", box |-> b, mat |-> m]
    /\ UNCHANGED <<int_list, self, groupVars, shadeVars, sceneVars, renderVars, idVars>>

NextBounds == BoundsTransformCall

SpecBounds == InitBounds /\ [][NextBounds]_vars

\* C19: for every box B with min <= max and every invertible affine
\* transform M, B.transform(M) is a box with min <= max that contains M * p
\* for every point p of B, its corners included.
C19_TransformEncloses ==
    lastOp.op = "bounds_transform" =>
        /\ result.bounds.min <= result.bounds.max
        /\ \A p \in lastOp.box.min..lastOp.box.max :
              LET moved == lastOp.mat[1] * p + lastOp.mat[2]
              IN  result.bounds.min <= moved /\ moved <= result.bounds.max

-----------------------------------------------------------------------------
(* src/shapes/sphere.rs, src/shapes/mod.rs, src/matrix.rs: a sphere given a *)
(* transform and then intersected with a ray, with matrix entries that are  *)
(* fractions, so that determinants between 0 and EPSILON occur.  A fraction *)
(* is [n, d] in lowest terms with d > 0; the arithmetic is exact.           *)

RECURSIVE Gcd(_, _)

Gcd(a, b) == IF b = 0 THEN a ELSE Gcd(b, a % b)

Frac(n, d) ==
    LET s == IF d < 0 THEN -1 ELSE 1
        g == Gcd(IF n < 0 THEN -n ELSE n, IF d < 0 THEN -d ELSE d)
    IN  [n |-> (s * n) \div g, d |-> (s * d) \div g]

Whole(k) == [n |-> k, d |-> 1]

AddQ(x, y) == Frac(x.n * y.d + y.n * x.d, x.d * y.d)

SubQ(x, y) == Frac(x.n * y.d - y.n * x.d, x.d * y.d)

MulQ(x, y) == Frac(x.n * y.n, x.d * y.d)

DivQ(x, y) == Frac(x.n * y.d, x.d * y.n)

NegQ(x) == [n |-> -x.n, d |-> x.d]

\* f64::sqrt on the squares of fractions that occur
SqrtQ(x) == [n |-> Sqrt(x.n), d |-> Sqrt(x.d)]

TranslationQ(x) == <<Whole(1), x, Whole(0), Whole(1)>>

ScalingQ(x) == <<x, Whole(0), Whole(0), Whole(1)>>

MatMulQ(l, r) ==
    << AddQ(MulQ(l[1], r[1]), MulQ(l[2], r[3])), AddQ(MulQ(l[1], r[2]), MulQ(l[2], r[4])),
       AddQ(MulQ(l[3], r[1]), MulQ(l[4], r[3])), AddQ(MulQ(l[3], r[2]), MulQ(l[4], r[4])) >>

DetQ(m) == SubQ(MulQ(m[1], m[4]), MulQ(m[2], m[3]))

CofactorQ(m, row, col) ==
    LET minor == At(m, 1 - row, 1 - col)
    IN  IF (row + col) % 2 = 0 THEN minor ELSE NegQ(minor)

\* det.approx_eq(&0.0): |det - 0| < EPSILON = 1 / EpsilonInverse
IsSingularQ(m) ==
    LET det == DetQ(m)
    IN  (IF det.n < 0 THEN -det.n ELSE det.n) * EpsilonInverse < det.d

\* inverse[(col, row)] = cofactor(row, col) / det; panics when IsSingularQ(m)
InverseQ(m) ==
    LET det == DetQ(m)
    IN  << DivQ(CofactorQ(m, 0, 0), det), DivQ(CofactorQ(m, 1, 0), det),
           DivQ(CofactorQ(m, 0, 1), det), DivQ(CofactorQ(m, 1, 1), det) >>

\* Ray::transform
RayTransformQ(ray, mat) ==
    Ray(AddQ(MulQ(mat[1], ray.origin), mat[2]), MulQ(mat[1], ray.direction))

\* Sphere::local_intersect
SphereLocalIntersectQ(id, ray) ==
    LET sphere_to_ray == ray.origin
        a == MulQ(ray.direction, ray.direction)
        b == MulQ(MulQ(ray.direction, sphere_to_ray), Whole(2))
        c == SubQ(MulQ(sphere_to_ray, sphere_to_ray), Whole(1))
        discriminant == SubQ(MulQ(b, b), MulQ(MulQ(Whole(4), a), c))
    IN  IF discriminant.n < 0 THEN <<>>
        ELSE << Intersection(DivQ(SubQ(NegQ(b), SqrtQ(discriminant)), MulQ(Whole(2), a)),
                             [id |-> id]),
                Intersection(DivQ(AddQ(NegQ(b), SqrtQ(discriminant)), MulQ(Whole(2), a)),
                             [id |-> id]) >>

\* Shape::intersect, the default method, on a sphere
SphereIntersectQ(sh, id, ray) ==
    LET local_ray == RayTransformQ(ray, sh[id].inverse)
    IN  SphereLocalIntersectQ(id, local_ray)

\* largest whole scaling factor k; 1 / k is used as well
MaxScale == 2

\* a scaling factor below EPSILON
Tiny == Frac(1, EpsilonInverse + 1)

Scales ==
    UNION {{Whole(k), Whole(-k), Frac(1, k), Frac(-1, k)} : k \in 1..MaxScale}
        \cup {Tiny, Whole(0)}

SphereTransforms ==
    {MatMulQ(TranslationQ(Whole(b)), ScalingQ(s)) : s \in Scales, b \in {-3, 0, 5}}

RaysQ == {Ray(Whole(origin), Whole(direction)) : origin \in {-5, 0, 4}, direction \in {-1, 1}}

InitSphere ==
    /\ IdleGroup
    /\ IdleShade
    /\ IdleList
    /\ IdleScene
    /\ IdleRender
    /\ IdleIds
    /\ lastOp = NoOp

\* Sphere::with_transformation(mat)
SphereWithTransformationQ ==
    /\ lastOp.op = "none"
    /\ \E mat \in SphereTransforms :
          /\ IF IsSingularQ(mat)
             THEN aborted' = TRUE /\ shapes' = shapes
             ELSE /\ aborted' = FALSE
                  /\ shapes' = << [kind |-> "sphere", transform |-> mat,
                                   inverse |-> InverseQ(mat), children |-> <<>>,
                                   strong |-> 1, material |-> 0] >>
          /\ lastOp' = [op |-> "with_transformation", mat |-> mat]
    /\ UNCHANGED <<own, ops, int_list, self, result, shadeVars, sceneVars, renderVars, idVars>>

\* s.intersect(&ray)
SphereIntersectCall ==
    /\ lastOp.op = "with_transformation"
    /\ ~aborted
    /\ \E ray \in RaysQ :
          /\ result' = [done |-> TRUE, xs |-> SphereIntersectQ(shapes, 1, ray)]
          /\ lastOp' = [op |-> "sphere_intersect", mat |-> lastOp.mat, ray |-> ray]
    /\ UNCHANGED <<int_list, self, groupVars, shadeVars, sceneVars, renderVars, idVars>>

NextSphere ==
    \/ SphereWithTransformationQ
    \/ SphereIntersectCall

SpecSphere == InitSphere /\ [][NextSphere]_vars

\* the inverse of x -> s * x + b, for s # 0: x -> (x - b) / s
ExactInverse(m) ==
    <<DivQ(Whole(1), m[1]), NegQ(DivQ(m[2], m[1])), Whole(0), Whole(1)>>

\* C20: a sphere can be given every transform M with a determinant other
\* than 0, however small, and its intersect(R) then returns the t values of
\* the unit sphere's local_intersect on the ray M^-1 * R.
C20_TransformInvariance ==
    /\ (lastOp.op = "with_transformation" /\ DetQ(lastOp.mat).n # 0) => ~aborted
    /\ lastOp.op = "sphere_intersect" =>
          Ts(result.xs) =
              Ts(SphereLocalIntersectQ(1, RayTransformQ(lastOp.ray, ExactInverse(lastOp.mat))))

-----------------------------------------------------------------------------
(* src/shapes/plane.rs, src/shapes/triangle.rs, src/shapes/smooth_triangle.rs: *)
(* local_intersect on degenerate input.  The plane reads the y components   *)
(* of the ray only, kept as fractions.  Triangles work on vectors <<x, y, z>> *)
(* of whole multiples of 1 / Unit, so that the triple product det is a      *)
(* whole multiple of 1 / Unit^3 and can fall between 0 and EPSILON.         *)

\* largest |origin.y| of a ray cast at the plane
MaxOrigin == 1

Unit == 100

Abs(x) == IF x < 0 THEN -x ELSE x

\* a local_intersect of Plane that gives up only for direction.y = 0
PlaneLocalIntersectExactZero(id, ray) ==
    IF ray.direction.n = 0 THEN <<>>
    ELSE << Intersection(DivQ(NegQ(ray.origin), ray.direction), [id |-> id]) >>

\* Plane::local_intersect; origin and direction are the y components
PlaneLocalIntersectQ(id, ray) ==
    IF Abs(ray.direction.n) * EpsilonInverse < ray.direction.d
    THEN <<>>
    ELSE << Intersection(DivQ(NegQ(ray.origin), ray.direction), [id |-> id]) >>

VSub(a, b) == <<a[1] - b[1], a[2] - b[2], a[3] - b[3]>>

Dot(a, b) == a[1] * b[1] + a[2] * b[2] + a[3] * b[3]

Cross(a, b) ==
    <<a[2] * b[3] - a[3] * b[2], a[3] * b[1] - a[1] * b[3], a[1] * b[2] - a[2] * b[1]>>

\* Triangle::new / SmoothTriangle::new: the fields local_intersect reads
TriangleNew(p1, p2, p3) == [p1 |-> p1, e1 |-> VSub(p2, p1), e2 |-> VSub(p3, p1)]

\* det.abs() < EPSILON for a det counted in 1 / Unit^3
DetBelowEpsilon(det) == Abs(det) < (Unit * Unit * Unit) \div EpsilonInverse

\* SmoothTriangle::local_intersect; f * x is the fraction x / det, compared
\* with 0 and 1 through its numerator and the sign of det
SmoothTriangleLocalIntersect(tri, id, ray) ==
    LET dir_cross_e2 == Cross(ray.direction, tri.e2)
        det == Dot(tri.e1, dir_cross_e2)
        s == IF det < 0 THEN -1 ELSE 1
        p1_to_origin == VSub(ray.origin, tri.p1)
        u == Dot(p1_to_origin, dir_cross_e2)
        origin_cross_e1 == Cross(p1_to_origin, tri.e1)
        v == Dot(ray.direction, origin_cross_e1)
        t == Dot(tri.e2, origin_cross_e1)
    IN  IF DetBelowEpsilon(det) THEN <<>>
        ELSE IF s * u < 0 \/ s * u > s * det THEN <<>>
        ELSE IF s * v < 0 \/ s * (u + v) > s * det THEN <<>>
        ELSE << [t |-> Frac(t, det), object |-> [id |-> id],
                 u |-> Frac(u, det), v |-> Frac(v, det)] >>

\* Triangle::local_intersect: the same steps, the intersection without u, v
TriangleLocalIntersect(tri, id, ray) ==
    LET xs == SmoothTriangleLocalIntersect(tri, id, ray)
    IN  [k \in DOMAIN xs |-> Intersection(xs[k].t, xs[k].object)]

PlaneRays ==
    {Ray(Whole(origin), direction) :
        origin \in -MaxOrigin..MaxOrigin,
        direction \in {Whole(0), Frac(1, 2 * EpsilonInverse), Frac(-1, 2 * EpsilonInverse),
                       Frac(1, EpsilonInverse), Frac(-1, EpsilonInverse),
                       Whole(1), Whole(-1)}}

\* the triangle of the book, one with sides of 0.01, three points on a line
\* and three times the same point
Triangles ==
    {TriangleNew(<<0, 100, 0>>, <<-100, 0, 0>>, <<100, 0, 0>>),
     TriangleNew(<<0, 0, 0>>, <<1, 0, 0>>, <<0, 1, 0>>),
     TriangleNew(<<0, 0, 0>>, <<1, 0, 0>>, <<2, 0, 0>>),
     TriangleNew(<<0, 0, 0>>, <<0, 0, 0>>, <<0, 0, 0>>)}

TriangleRays ==
    {Ray(origin, direction) :
        origin \in {<<0, 50, -200>>, <<0, 0, -200>>, <<100, 100, -200>>},
        direction \in {<<0, 0, 100>>, <<0, 0, 50>>, <<0, 100, 0>>, <<0, 0, -100>>}}

InitDegenerate ==
    /\ IdleGroup
    /\ IdleShade
    /\ IdleList
    /\ IdleScene
    /\ IdleRender
    /\ IdleIds
    /\ lastOp = NoOp

\* plane.local_intersect(&ray)
PlaneLocalIntersectCall ==
    /\ lastOp.op = "none"
    /\ \E ray \in PlaneRays :
          /\ result' = [done |-> TRUE, xs |-> PlaneLocalIntersectQ(1, ray)]
          /\ lastOp' = [op |-> "plane_local_intersect", ray |-> ray]
    /\ UNCHANGED <<int_list, self, groupVars, shadeVars, sceneVars, renderVars, idVars>>

\* triangle.local_intersect(&ray)
TriangleLocalIntersectCall ==
    /\ lastOp.op = "none"
    /\ \E tri \in Triangles : \E ray \in TriangleRays :
          /\ result' = [done |-> TRUE, xs |-> TriangleLocalIntersect(tri, 1, ray)]
          /\ lastOp' = [op |-> "triangle_local_intersect", tri |-> tri, ray |-> ray]
    /\ UNCHANGED <<int_list, self, groupVars, shadeVars, sceneVars, renderVars, idVars>>

\* smooth_triangle.local_intersect(&ray)
SmoothTriangleLocalIntersectCall ==
    /\ lastOp.op = "none"
    /\ \E tri \in Triangles : \E ray \in TriangleRays :
          /\ result' = [done |-> TRUE, xs |-> SmoothTriangleLocalIntersect(tri, 1, ray)]
          /\ lastOp' = [op |-> "smooth_triangle_local_intersect", tri |-> tri, ray |-> ray]
    /\ UNCHANGED <<int_list, self, groupVars, shadeVars, sceneVars, renderVars, idVars>>

NextDegenerate ==
    \/ PlaneLocalIntersectCall
    \/ TriangleLocalIntersectCall
    \/ SmoothTriangleLocalIntersectCall

SpecDegenerate == InitDegenerate /\ [][NextDegenerate]_vars

\* the triple product e1 . (direction x e2) of a triangle and a ray
TripleProduct(tri, ray) == Dot(tri.e1, Cross(ray.direction, tri.e2))

\* C23: degenerate geometry gives an empty list and no abort: the plane
\* returns nothing when |direction.y| < EPSILON and one intersection
\* otherwise; a triangle returns nothing when |det| < EPSILON, in particular
\* for a ray parallel to its face and for a triangle without area, and at
\* most one intersection otherwise.
C23_DegenerateIsMiss ==
    /\ lastOp.op = "plane_local_intersect" =>
          /\ ~aborted /\ result.done
          /\ Len(result.xs) =
                IF Abs(lastOp.ray.direction.n) * EpsilonInverse < lastOp.ray.direction.d
                THEN 0 ELSE 1
    /\ lastOp.op \in {"triangle_local_intersect", "smooth_triangle_local_intersect"} =>
          /\ ~aborted /\ result.done
          /\ Len(result.xs) <= 1
          /\ Abs(TripleProduct(lastOp.tri, lastOp.ray)) * (EpsilonInverse \div Unit)
                 < Unit * Unit => result.xs = <<>>
          /\ Cross(lastOp.tri.e1, lastOp.tri.e2) = <<0, 0, 0>> => result.xs = <<>>
          /\ Dot(lastOp.ray.direction, Cross(lastOp.tri.e1, lastOp.tri.e2)) = 0
                 => result.xs = <<>>

\* a ray that is not parallel to the face of a triangle with area was cast
\* at it, det came out below EPSILON and no intersection was returned
C23_Witness ==
    /\ lastOp.op = "smooth_triangle_local_intersect"
    /\ ~aborted
    /\ TripleProduct(lastOp.tri, lastOp.ray) # 0
    /\ DetBelowEpsilon(TripleProduct(lastOp.tri, lastOp.ray))
    /\ result.xs = <<>>

-----------------------------------------------------------------------------
(* src/shapes/cube.rs: Cube::local_intersect.  Origins and directions are    *)
(* vectors <<x, y, z>> of fractions.  An f64 is [k |-> "fin", q |-> fraction], *)
(* [k |-> "inf", s |-> 1 or -1] or [k |-> "nan"].                             *)

\* largest origin coordinate of a ray cast at the cube
MaxOffset == 5

Fin(q) == [k |-> "fin", q |-> q]

Inf(s) == [k |-> "inf", s |-> s]

NaN == [k |-> "nan"]

LtQ(x, y) == x.n * y.d < y.n * x.d

\* a > b on f64: false when either is NaN
FGt(a, b) ==
    IF a.k = "nan" \/ b.k = "nan" THEN FALSE
    ELSE IF a.k = "inf" THEN a.s = 1 /\ ~(b.k = "inf" /\ b.s = 1)
    ELSE IF b.k = "inf" THEN b.s = -1
    ELSE LtQ(b.q, a.q)

\* f64::max and f64::min: a NaN operand is ignored
FMax(a, b) == IF a.k = "nan" THEN b ELSE IF b.k = "nan" THEN a ELSE IF FGt(b, a) THEN b ELSE a

FMin(a, b) == IF a.k = "nan" THEN b ELSE IF b.k = "nan" THEN a ELSE IF FGt(a, b) THEN b ELSE a

\* numerator * INFINITY
TimesInfinity(q) == IF q.n = 0 THEN NaN ELSE Inf(IF q.n < 0 THEN -1 ELSE 1)

\* a check_axis that returns the two quotients as they come
CheckAxisNoSwap(origin, direction) ==
    LET tmin_numerator == SubQ(Whole(-1), origin)
        tmax_numerator == SubQ(Whole(1), origin)
    IN  IF Abs(direction.n) * EpsilonInverse >= direction.d
        THEN <<Fin(DivQ(tmin_numerator, direction)), Fin(DivQ(tmax_numerator, direction))>>
        ELSE <<TimesInfinity(tmin_numerator), TimesInfinity(tmax_numerator)>>

\* Cube::check_axis
CheckAxis(origin, direction) ==
    LET tmin_numerator == SubQ(Whole(-1), origin)
        tmax_numerator == SubQ(Whole(1), origin)
        ts == IF Abs(direction.n) * EpsilonInverse >= direction.d
              THEN <<Fin(DivQ(tmin_numerator, direction)),
                     Fin(DivQ(tmax_numerator, direction))>>
              ELSE <<TimesInfinity(tmin_numerator), TimesInfinity(tmax_numerator)>>
    IN  IF FGt(ts[1], ts[2]) THEN <<ts[2], ts[1]>> ELSE ts

\* Cube::local_intersect
CubeLocalIntersect(id, ray) ==
    LET x == CheckAxis(ray.origin[1], ray.direction[1])
        y == CheckAxis(ray.origin[2], ray.direction[2])
        z == CheckAxis(ray.origin[3], ray.direction[3])
        tmin == FMax(FMax(x[1], y[1]), z[1])
        tmax == FMin(FMin(x[2], y[2]), z[2])
    IN  IF FGt(tmin, tmax) THEN <<>>
        ELSE <<Intersection(tmin, [id |-> id]), Intersection(tmax, [id |-> id])>>

NearZero(q) == Abs(q.n) * EpsilonInverse < q.d

\* rays: at least one component of the direction is not near zero
CubeRays ==
    LET os == {Whole(0), Frac(1, 2), Whole(1), Whole(2), Whole(MaxOffset)}
        ds == {Whole(-1), Whole(0), Frac(1, 2 * EpsilonInverse), Whole(1)}
    IN  {r \in [origin : os \X os \X os, direction : ds \X ds \X ds] :
            \E a \in 1..3 : ~NearZero(r.direction[a])}

InitCube ==
    /\ IdleGroup
    /\ IdleShade
    /\ IdleList
    /\ IdleScene
    /\ IdleRender
    /\ IdleIds
    /\ lastOp = NoOp

\* cube.local_intersect(&ray)
CubeLocalIntersectCall ==
    /\ lastOp.op = "none"
    /\ \E ray \in CubeRays :
          /\ result' = [done |-> TRUE, xs |-> CubeLocalIntersect(1, ray)]
          /\ lastOp' = [op |-> "cube_local_intersect", ray |-> ray]
    /\ UNCHANGED <<int_list, self, groupVars, shadeVars, sceneVars, renderVars, idVars>>

NextCube == CubeLocalIntersectCall

SpecCube == InitCube /\ [][NextCube]_vars

\* the stretch of t for which origin + t * direction lies between the planes
\* -1 and 1 of one axis: empty, or from entry to exit
Slab(origin, direction) ==
    IF NearZero(direction)
    THEN [empty |-> LtQ(origin, Whole(-1)) \/ LtQ(Whole(1), origin),
          entry |-> Inf(-1), exit |-> Inf(1)]
    ELSE LET t1 == DivQ(SubQ(Whole(-1), origin), direction)
             t2 == DivQ(SubQ(Whole(1), origin), direction)
         IN  [empty |-> FALSE,
              entry |-> Fin(IF LtQ(t1, t2) THEN t1 ELSE t2),
              exit |-> Fin(IF LtQ(t1, t2) THEN t2 ELSE t1)]

-----------------------------------------------------------------------------
(* src/intersection.rs: Computations::new as prepare_computations calls it, *)
(* with the hit point, the ray direction and the normal the shape returns.  *)
(* Vectors are <<x, y, z>> of whole numbers; the coordinates of points are   *)
(* counted in EPSILON, so that normalv * EPSILON is normalv itself.          *)

\* largest coordinate of a hit point, in units of 1
MaxPoint == 1

VAdd(a, b) == <<a[1] + b[1], a[2] + b[2], a[3] + b[3]>>

VNeg(a) == <<-a[1], -a[2], -a[3]>>

\* a Computations::new that sets inside and keeps the normal as given
ComputationsNewNoFlip(point, eyev, normalv) ==
    [point |-> point, eyev |-> eyev,
     inside |-> Dot(normalv, eyev) < 0,
     normalv |-> normalv,
     over_point |-> VAdd(point, normalv),
     under_point |-> VSub(point, normalv)]

\* Computations::new: inside, normalv, over_point, under_point
ComputationsNew(point, eyev, normalv) ==
    LET flipped == IF Dot(normalv, eyev) < 0 THEN VNeg(normalv) ELSE normalv
    IN  [point |-> point, eyev |-> eyev,
         inside |-> Dot(normalv, eyev) < 0,
         normalv |-> flipped,
         over_point |-> VAdd(point, flipped),
         under_point |-> VSub(point, flipped)]

\* ray directions: towards the surface, away from it, and along it
Directions ==
    {d \in {-1, 0, 1} \X {-1, 0, 1} \X {-1, 0, 1} : d # <<0, 0, 0>>}

\* the unit normals of the faces of a cube; a sphere has them on its axes
Normals ==
    {<<1, 0, 0>>, <<-1, 0, 0>>, <<0, 1, 0>>, <<0, -1, 0>>, <<0, 0, 1>>, <<0, 0, -1>>}

HitPoints == {<<x * EpsilonInverse, 0, z * EpsilonInverse>> : x \in 0..MaxPoint, z \in 0..MaxPoint}

InitComps ==
    /\ IdleGroup
    /\ IdleShade
    /\ IdleList
    /\ IdleScene
    /\ IdleRender
    /\ IdleIds
    /\ lastOp = NoOp

\* the call of Computations::new in prepare_computations: eyev is
\* -ray.direction, normalv is object.normal_at(point, self)
ComputationsNewCall ==
    /\ lastOp.op = "none"
    /\ \E point \in HitPoints : \E direction \in Directions : \E normal \in Normals :
          /\ result' = [done |-> TRUE,
                        comps |-> ComputationsNew(point, VNeg(direction), normal)]
          /\ lastOp' = [op |-> "computations_new", direction |-> direction,
                        normal |-> normal]
    /\ UNCHANGED <<int_list, self, groupVars, shadeVars, sceneVars, renderVars, idVars>>

NextComps == ComputationsNewCall

SpecComps == InitComps /\ [][NextComps]_vars

\* C25: inside is true exactly when the shape's normal has a negative dot
\* product with eyev = -ray.direction; normalv is then the negated normal,
\* otherwise the normal, so normalv . eyev >= 0; over_point and under_point
\* are point + EPSILON * normalv and point - EPSILON * normalv, on opposite
\* sides of the hit point.
C25_InsideAndOffsets ==
    lastOp.op = "computations_new" =>
        LET c == result.comps
            eyev == VNeg(lastOp.direction)
            facing_away == Dot(lastOp.normal, eyev) < 0
        IN  /\ c.inside <=> facing_away
            /\ c.normalv = IF facing_away THEN VNeg(lastOp.normal) ELSE lastOp.normal
            /\ Dot(c.normalv, eyev) >= 0
            /\ c.over_point = VAdd(c.point, c.normalv)
            /\ c.under_point = VSub(c.point, c.normalv)
            /\ Dot(VSub(c.over_point, c.point), lastOp.normal)
                   * Dot(VSub(c.under_point, c.point), lastOp.normal) < 0

\* a hit from inside the shape: the normal was negated, over_point lies
\* on the side of the eye
C25_Witness ==
    /\ lastOp.op = "computations_new"
    /\ result.comps.inside
    /\ result.comps.normalv = VNeg(lastOp.normal)
    /\ Dot(VSub(result.comps.over_point, result.comps.point), VNeg(lastOp.direction)) > 0

-----------------------------------------------------------------------------
(* src/patterns/checker.rs: the checker pattern.  Coordinates are whole     *)
(* numbers of hundredths (1/Unit); the two colours are their indices in     *)
(* the colors array.                                                        *)

\* the largest cell a sampled coordinate lies in
MaxCell == 1

\* f32::round: the nearest whole number, halves away from zero
Round(x) ==
    IF x >= 0 THEN (x + Unit \div 2) \div Unit
              ELSE -((Unit \div 2 - x) \div Unit)

\* f32::floor: the largest whole number not above x
Floor(x) == x \div Unit

\* Rust's i32 %: the remainder takes the sign of the dividend
Rem(a, b) == IF a >= 0 THEN a % b ELSE -((-a) % b)

\* Checker::color_at: the index into colors
CheckerColorAt(point) ==
    LET sum == Round(point[1]) + Round(point[2]) + Round(point[3])
    IN  IF Rem(sum, 2) = 0 THEN 0 ELSE 1

\* every hundredth along x across the cell borders, a few y and z
CheckerPoints ==
    {<<x, y, z>> : x \in (-(MaxCell * Unit) - 1)..(MaxCell * Unit + 1),
                   y \in {c * Unit : c \in 0..MaxCell},
                   z \in {-c * Unit : c \in 0..MaxCell}}

InitChecker ==
    /\ IdleGroup
    /\ IdleShade
    /\ IdleList
    /\ IdleScene
    /\ IdleRender
    /\ IdleIds
    /\ lastOp = NoOp

CheckerColorAtCall ==
    /\ lastOp.op = "none"
    /\ \E point \in CheckerPoints :
          /\ result' = [done |-> TRUE, colour |-> CheckerColorAt(point)]
          /\ lastOp' = [op |-> "checker_color_at", point |-> point]
    /\ UNCHANGED <<int_list, self, groupVars, shadeVars, sceneVars, renderVars, idVars>>

NextChecker == CheckerColorAtCall

SpecChecker == InitChecker /\ [][NextChecker]_vars

\* the cell of a point: the whole parts of its coordinates
CellSum(point) == Floor(point[1]) + Floor(point[2]) + Floor(point[3])

\* C26: the colour is colors[0] where the sum of the point's integer cell
\* coordinates is even and colors[1] where it is odd, so it is colors[0] at
\* (0, 0, 0) and at (0.99, 0, 0), colors[1] at (1.01, 0, 0), and changes
\* along x only where x crosses an integer.
C26_CheckerCells ==
    lastOp.op = "checker_color_at" =>
        result.colour = (IF CellSum(lastOp.point) % 2 = 0 THEN 0 ELSE 1)

\* the second assertion of the repository's test: the point (0.99, 0, 0)
\* rounds to cell 1 and gets colors[1]
C26_Witness ==
    /\ lastOp.op = "checker_color_at"
    /\ lastOp.point = <<Unit - 1, 0, 0>>
    /\ result.colour = 1

-----------------------------------------------------------------------------
(* src/camera.rs: Camera::rays_for_pixels, the sample rays of one pixel.    *)
(* The pixel is divided in n_sqrt x n_sqrt cells; array_init builds the     *)
(* SAMPLES_PER_PIXEL rays one index at a time.  A ray is kept as the cell   *)
(* its offset (dx, dy) falls in; the random part of the offset is one of    *)
(* Jitter equal steps across a cell.  debug_assert_eq! is compiled in a     *)
(* debug build only, so the build is an input of the call.                  *)

SAMPLES_PER_PIXEL == 32

\* number of positions the random offset takes within a cell
Jitter == 2

\* (SAMPLES_PER_PIXEL as f32).sqrt().round() as usize
NSqrt ==
    CHOOSE n \in 0..SAMPLES_PER_PIXEL :
        /\ (2 * n - 1) * (2 * n - 1) <= 4 * SAMPLES_PER_PIXEL
        /\ 4 * SAMPLES_PER_PIXEL < (2 * n + 1) * (2 * n + 1)

\* the closure of array_init for index i (from 0) and the random numbers
\* rx, ry: the offsets dx, dy in units of 1 / (NSqrt * Jitter)
SampleOffset(i, rx, ry) ==
    LET xi == i % NSqrt
        yi == i \div NSqrt
    IN  <<xi * Jitter + rx, yi * Jitter + ry>>

\* the cell of the pixel an offset lies in
CellOf(offset) == <<offset[1] \div Jitter, offset[2] \div Jitter>>

InitSamples ==
    /\ IdleGroup
    /\ IdleShade
    /\ IdleList
    /\ IdleScene
    /\ IdleRender
    /\ IdleIds
    /\ lastOp = NoOp

\* render takes the supersampling branch and calls rays_for_pixels, which
\* checks its assertion in a debug build
RaysForPixelsCall ==
    /\ lastOp.op = "none"
    /\ SAMPLES_PER_PIXEL # 1
    /\ \E px \in 0..(MaxSide - 1) : \E py \in 0..(MaxSide - 1) :
       \E debug_assertions \in BOOLEAN :
          /\ lastOp' = [op |-> "rays_for_pixels", px |-> px, py |-> py,
                        debug_assertions |-> debug_assertions]
          /\ IF debug_assertions /\ NSqrt * NSqrt # SAMPLES_PER_PIXEL
             THEN /\ aborted' = TRUE
                  /\ UNCHANGED result
             ELSE /\ result' = [done |-> FALSE, cells |-> <<>>, offset |-> <<0, 0>>]
                  /\ UNCHANGED aborted
    /\ UNCHANGED <<shapes, own, ops, int_list, self, shadeVars, sceneVars,
                   renderVars, idVars>>

\* array_init calls the closure for the next index
ArrayInitStep ==
    /\ lastOp.op = "rays_for_pixels"
    /\ ~aborted
    /\ "cells" \in DOMAIN result
    /\ Len(result.cells) < SAMPLES_PER_PIXEL
    /\ \E rx \in 0..(Jitter - 1) : \E ry \in 0..(Jitter - 1) :
          LET offset == SampleOffset(Len(result.cells), rx, ry)
              cells == Append(result.cells, CellOf(offset))
          IN  result' = [done |-> Len(cells) = SAMPLES_PER_PIXEL,
                         cells |-> cells, offset |-> offset]
    /\ UNCHANGED <<lastOp, int_list, self, groupVars, shadeVars, sceneVars,
                   renderVars, idVars>>

NextSamples ==
    \/ RaysForPixelsCall
    \/ ArrayInitStep

SpecSamples == InitSamples /\ [][NextSamples]_vars

\* number of sample rays in a cell
SamplesIn(cell) ==
    Cardinality({i \in DOMAIN result.cells : result.cells[i] = cell})

\* C27: the assertion n_sqrt * n_sqrt = SAMPLES_PER_PIXEL of rays_for_pixels
\* holds for the configured SAMPLES_PER_PIXEL, so the call never aborts, and
\* the rays it returns have exactly one sample in each cell of the
\* n_sqrt x n_sqrt grid of the pixel.
C27_SamplesFillGrid ==
    lastOp.op = "rays_for_pixels" =>
        /\ NSqrt * NSqrt = SAMPLES_PER_PIXEL
        /\ ~aborted
        /\ result.done =>
              \A cx \in 0..(NSqrt - 1) : \A cy \in 0..(NSqrt - 1) :
                  SamplesIn(<<cx, cy>>) = 1

\* a release build returns the array with cells of the last row left empty
C27_Witness ==
    /\ lastOp.op = "rays_for_pixels"
    /\ ~lastOp.debug_assertions
    /\ result.done
    /\ Len(result.cells) = SAMPLES_PER_PIXEL
    /\ \E cx \in 0..(NSqrt - 1) : SamplesIn(<<cx, NSqrt - 1>>) = 0

\* a debug build stops at the assertion
C27_AssertionFails ==
    /\ lastOp.op = "rays_for_pixels"
    /\ lastOp.debug_assertions
    /\ aborted

-----------------------------------------------------------------------------
(* src/world.rs: World::color_at from the intersection list to the          *)
(* Computations.  The list is the sorted list World::intersect returns: the *)
(* crossings of the glass spheres in order, the first ones behind the ray's *)
(* origin.  hit returns a reference into the list, so the position of the   *)
(* hit is the position at which std::ptr::eq(i, self) holds.                *)

InitColorAtList ==
    /\ IdleGroup
    /\ IdleShade
    /\ IdleScene
    /\ IdleRender
    /\ IdleIds
    /\ lastOp = NoOp
    /\ result = [done |-> FALSE]
    /\ self = 0
    /\ \E objects \in CrossingLists : \E behind \in 0..(Len(objects) + 1) :
          int_list = [k \in DOMAIN objects |-> Intersection(k - behind, objects[k])]

\* color_at from "if let Some(hit) = Intersection::hit(&xs)" to the call of
\* shade_hit, or to Color::black()
ColorAtPrepare ==
    /\ lastOp.op = "none"
    /\ LET hit == Hit(int_list)
       IN  /\ self' = hit
           /\ result' = IF hit # 0
                        THEN [done |-> TRUE, hit |-> hit,
                              comps |-> PrepareComputations(hit, int_list)]
                        ELSE [done |-> TRUE, hit |-> 0]
    /\ lastOp' = [op |-> "color_at"]
    /\ UNCHANGED <<int_list, groupVars, shadeVars, sceneVars, renderVars, idVars>>

\* prepare_computations of an intersection built apart from the list, as in
\* i.prepare_computations(&r, &xs) with i = Intersection::new(..)
DetachedPrepare ==
    /\ lastOp.op = "none"
    /\ result' = [done |-> TRUE, hit |-> 0, comps |-> PrepareComputations(0, int_list)]
    /\ lastOp' = [op |-> "prepare_detached"]
    /\ UNCHANGED <<int_list, self, groupVars, shadeVars, sceneVars, renderVars, idVars>>

NextColorAtList ==
    \/ ColorAtPrepare
    \/ DetachedPrepare

SpecColorAtList == InitColorAtList /\ [][NextColorAtList]_vars

RECURSIVE ContainerUpTo(_, _)

\* the container after the first k elements of the list have toggled it
ContainerUpTo(xs, k) ==
    IF k = 0 THEN <<>> ELSE Toggle(ContainerUpTo(xs, k - 1), xs[k].object)

\* C28: in color_at the hit is an element of the list handed to
\* prepare_computations, so n1 is the index of the container as it is just
\* before the hit toggles it and n2 the index just after, and neither is the
\* placeholder 0.0; an intersection that is not an element of the list
\* keeps n1 = n2 = 0.0.
C28_HitIsListElement ==
    /\ (lastOp.op = "color_at" /\ result.hit # 0) =>
          /\ self \in DOMAIN int_list
          /\ int_list[self].t >= 0
          /\ result.comps.n1 = LastRefractiveIndex(ContainerUpTo(int_list, self - 1))
          /\ result.comps.n2 = LastRefractiveIndex(ContainerUpTo(int_list, self))
          /\ result.comps.n1 # 0
          /\ result.comps.n2 # 0
    /\ lastOp.op = "prepare_detached" => result.comps = [n1 |-> 0, n2 |-> 0]

\* color_at on a ray that starts inside two nested spheres: the hit is the
\* third element of the list and leaves the inner sphere
C28_Witness ==
    /\ lastOp.op = "color_at"
    /\ Len(int_list) = 4
    /\ Objects(int_list) = <<GlassA, GlassB, GlassB, GlassA>>
    /\ self = 3
    /\ result.comps = [n1 |-> 20, n2 |-> 15]

-----------------------------------------------------------------------------
(* Refractive indices along a list of crossings *)

\* number of crossings of a shape in the list
Occurrences(xs, object) ==
    Cardinality({k \in DOMAIN xs : xs[k].object.id = object.id})

\* C29: for a list of crossings of shapes with distinct ids, n2 of an
\* element is n1 of the element after it; n1 of the first element is 1.0;
\* n2 of the last element is 1.0 when every shape occurs an even number of
\* times in the list.
C29_IndicesChain ==
    (lastOp.op = "prepare_computations" /\ self # 0) =>
        /\ self < Len(int_list) =>
              result.comps.n2 = PrepareComputations(self + 1, int_list).n1
        /\ self = 1 => result.comps.n1 = Vacuum
        /\ (/\ self = Len(int_list)
            /\ \A g \in Glass : Occurrences(int_list, g) % 2 = 0) =>
              result.comps.n2 = Vacuum

\* the last crossing of two overlapping spheres, A, B, A, B: the ray
\* leaves B into the open
C29_Witness ==
    /\ lastOp.op = "prepare_computations"
    /\ Objects(int_list) = <<GlassA, GlassB, GlassA, GlassB>>
    /\ self = 4
    /\ result.comps = [n1 |-> 20, n2 |-> 10]
    /\ PrepareComputations(3, int_list).n2 = 20

-----------------------------------------------------------------------------
(* src/shapes/group.rs: Group::material and Group::set_material.  The       *)
(* program builds spheres and groups, gives materials and asks for them;   *)
(* the material a call of set_material gives is named after its target,    *)
(* so the leaves of a scene can carry different materials.                  *)

\* an indexing that takes the child added last
ChildrenLast(sh, id) ==
    IF sh[id].children = <<>> THEN [ok |-> FALSE, out |-> 0]
    ELSE [ok |-> TRUE, out |-> sh[id].children[Len(sh[id].children)]]

\* self.children[0]: panics with index out of bounds on an empty Vec
ChildrenFirst(sh, id) ==
    IF sh[id].children = <<>> THEN [ok |-> FALSE, out |-> 0]
    ELSE [ok |-> TRUE, out |-> sh[id].children[1]]

RECURSIVE Material(_, _)

\* Shape::material, dispatched on the variant: a leaf returns its own
\* material, a group self.children[0].material()
Material(sh, id) ==
    IF sh[id].kind # "group" THEN [ok |-> TRUE, out |-> sh[id].material]
    ELSE LET first == ChildrenFirst(sh, id)
         IN  IF ~first.ok THEN [ok |-> FALSE, out |-> 0]
             ELSE Material(sh, first.out)

\* shape.set_material(material) on a shape the program owns
ShapeSetMaterial ==
    /\ ~aborted
    /\ \E id \in Roots :
          LET st1 == SetMaterial([sh |-> shapes, ok |-> TRUE], id, id)
          IN  /\ shapes' = st1.sh
              /\ aborted' = ~st1.ok
              /\ lastOp' = [op |-> "set_material", target |-> id, arg |-> id, mat |-> Eye]
    /\ UNCHANGED <<own, ops, shadeVars, listVars, sceneVars, renderVars, idVars>>

\* shape.material() on any shape of the scene
ShapeMaterial ==
    /\ ~aborted
    /\ \E id \in Ids :
          LET r == Material(shapes, id)
          IN  /\ aborted' = ~r.ok
              /\ result' = IF r.ok THEN [done |-> TRUE, out |-> r.out] ELSE result
              /\ lastOp' = [op |-> "material", target |-> id, arg |-> 0, mat |-> Eye]
    /\ UNCHANGED <<shapes, own, ops, int_list, self, shadeVars, sceneVars, renderVars,
                   idVars>>

NextMaterial ==
    \/ SphereNew
    \/ GroupNew
    \/ GroupAddChild
    \/ ShapeSetMaterial
    \/ ShapeMaterial

SpecMaterial == InitGroup /\ [][NextMaterial]_vars

\* the call of material() that has just completed agrees with the first
\* child: a leaf gives its material, a group what material() gives on it
MaterialOfFirstChild ==
    (lastOp.op = "material" /\ shapes[lastOp.target].kind = "group") =>
        LET children == shapes[lastOp.target].children
        IN  IF children = <<>> THEN aborted
            ELSE IF shapes[children[1]].kind # "group"
            THEN ~aborted /\ result.out = shapes[children[1]].material
            ELSE /\ aborted <=> ~Material(shapes, children[1]).ok
                 /\ ~aborted => result.out = Material(shapes, children[1]).out

\* C30: Group.material() returns the material of the group's first child,
\* for a nested first child that group's first child's material; on a group
\* without children it aborts; set_material on a group without children
\* changes nothing and does not abort.
C30_GroupMaterial ==
    /\ []MaterialOfFirstChild
    /\ [][(/\ lastOp'.op = "set_material"
           /\ lastOp'.target \in DOMAIN shapes
           /\ shapes[lastOp'.target].kind = "group"
           /\ shapes[lastOp'.target].children = <<>>)
          => (shapes' = shapes /\ ~aborted')]_vars

\* material() on a group of two spheres with different materials has
\* returned the material of the first
C30_Witness ==
    /\ lastOp.op = "material"
    /\ ~aborted
    /\ shapes[lastOp.target].kind = "group"
    /\ Len(shapes[lastOp.target].children) = 2
    /\ LET children == shapes[lastOp.target].children
       IN  /\ shapes[children[1]].kind = "sphere"
           /\ shapes[children[2]].kind = "sphere"
           /\ shapes[children[1]].material # shapes[children[2]].material
           /\ result.out = shapes[children[1]].material

\* material() on a group whose first child is a group without children
\* has aborted
C30_NestedEmptyAborts ==
    /\ lastOp.op = "material"
    /\ aborted
    /\ shapes[lastOp.target].children # <<>>

====
